---------------------------- MODULE Spec2Model ----------------------------
(***************************************************************************)
(* brickmask: assign bit codes defined on Legacy Survey brick pixels to a  *)
(* catalogue with sky coordinates.                                         *)
(*                                                                         *)
(* The repository holds three generations of the program:                  *)
(*   - src/src/*.c, src/src/get_brick.h (last part): the structure-of-     *)
(*     arrays pipeline  get_brick -> read_data -> sort_data -> assign_mask *)
(*     -> reorder_data -> save_data  (specification Spec);                 *)
(*   - src/brickmask.c, src/read_data.c, src/save_res.c, ...: the first    *)
(*     array-of-structures program whose main() tries NUMSUB subsample     *)
(*     mask files per brick (specification SpecLegacy);                    *)
(*   - the brick lookup on its own (specification SpecFind).               *)
(*                                                                         *)
(* Sky coordinates are integers: one unit is one cell of the sky grid and  *)
(* BRICKMASK_TOL is the smallest representable step.  size_t is SizeBits   *)
(* bits wide.                                                              *)
(***************************************************************************)
EXTENDS Integers, Sequences, FiniteSets, TLC

VARIABLES
  pc,       \* position of main()
  brick,    \* BRICK: the brick table, a sequence of rows
  q,        \* SpecFind: the coordinate handed to find_brick
  res,      \* SpecFind: what find_brick returned
  build,    \* compile-time options of the build: [eboss]
  conf,     \* CONF: [mnull, enull, fmt]
  files,    \* the maskbits and nexp files on disk, per brick of the list
  cat,      \* the rows of the input catalogue, in file order
  data,     \* DATA: [n, ra, dec, id, idx, mask, nexp, mtype, etype, nbrick]
  mk,       \* MASK of assign_mask: [size, bytes, dtype, etype]
  imin,     \* assign_mask: start of the next group of objects
  opened,   \* history: <<slot, dtype>> of every file read_mask has read
  out,      \* the rows written to the output catalogue
  err,      \* exit status of the process
  grp,      \* first program: m, the group of objects main() is at
  sub,      \* first program: i, the subsample file main() is at
  masktype, \* first program: the longest data type met so far (dtype)
  size,     \* MPI: the number of tasks; OMP: the number of threads
  scatter,  \* mpi_scatter_data: the arrays [nsend, disp] of the root
  task,     \* MPI: the task-private DATA of every rank but the root
  thr,      \* OMP: per thread, the private m, i and position in the loop
  taken,    \* OMP: the iterations of the loop over m handed out so far
  wrote,    \* OMP history: per object, the threads that wrote its codes
  cause     \* main: the category of the failure a step of main() met

fvars == <<q, res>>
pvars == <<build, conf, files, cat, data, mk, imin, opened, out, err>>
lvars == <<grp, sub, masktype>>
wvars == <<size, scatter, task, thr, taken, wrote>>
xvars == <<cause>>
vars == <<pc, brick, q, res, build, conf, files, cat, data, mk, imin, opened,
          out, err, grp, sub, masktype, size, scatter, task, thr, taken, wrote,
          cause>>

(***************************************************************************)
(* Bounds and the sky grid                                                 *)
(***************************************************************************)
MaxBrick == 3          \* rows of the brick list
SizeBits == 6          \* width of size_t

SizeMod == 2 ^ SizeBits

RaEdge  == 0 .. 4      \* right ascension grid; Max(RaEdge) plays 360 deg
DecEdge == 0 .. 2      \* declination grid; Max(DecEdge) plays +90 deg

SetMax(S) == CHOOSE x \in S : \A y \in S : y <= x
SetMin(S) == CHOOSE x \in S : \A y \in S : x <= y

RA_FULL == SetMax(RaEdge)
DEC_TOP == SetMax(DecEdge)

\* the coordinates of the sky: dec in [-90, 90), ra in [0, 360)
SkyRa  == RaEdge \ {RA_FULL}
SkyDec == DecEdge \ {DEC_TOP}

(***************************************************************************)
(* Brick rows                                                              *)
(***************************************************************************)
Rects ==
  { [ra1 |-> a, ra2 |-> b, dec1 |-> c, dec2 |-> d] :
      a \in RaEdge, b \in RaEdge, c \in DecEdge, d \in DecEdge }

\* rows with a non-empty half-open rectangle
BrickRows == { r \in Rects : r.ra1 < r.ra2 /\ r.dec1 < r.dec2 }

Inside(r, ra, dec) ==
  /\ r.dec1 <= dec /\ dec < r.dec2
  /\ r.ra1 <= ra /\ ra < r.ra2

Overlap(r, s) ==
  /\ r.ra1 < s.ra2 /\ s.ra1 < r.ra2
  /\ r.dec1 < s.dec2 /\ s.dec1 < r.dec2

NoOverlap(t) ==
  \A i \in 1 .. Len(t) : \A j \in 1 .. Len(t) : i < j => ~Overlap(t[i], t[j])

\* brick lists of at most k rows whose rectangles do not overlap, in any order
RECURSIVE BrickLists(_)
BrickLists(k) ==
  IF k = 0 THEN { << >> }
  ELSE LET P == BrickLists(k - 1) IN
       P \cup { Append(pr[1], pr[2]) :
                 pr \in { x \in { p \in P : Len(p) = k - 1 } \X BrickRows :
                            \A i \in 1 .. Len(x[1]) : ~Overlap(x[1][i], x[2]) } }

\* check_brick: both RA and Dec should be in ascending order
\* (the rounding to BRICKMASK_TOL is the identity on the integer grid)
check_brick(t) ==
  \A i \in 2 .. Len(t) :
    /\ ~(t[i - 1].dec1 > t[i].dec1)
    /\ ~(t[i - 1].dec1 = t[i].dec1 /\ t[i - 1].ra1 > t[i].ra1)

(***************************************************************************)
(* find_brick                                                              *)
(***************************************************************************)
NOT_FOUND == -1

\* a comparator with closed upper edges
compare_pos_closed(ra1, ra2, dec1, dec2, ra, dec) ==
  IF dec < dec1 THEN -1
  ELSE IF dec > dec2 THEN 1
  ELSE IF ra < ra1 THEN -1
  ELSE IF ra > ra2 THEN 1
  ELSE 0

\* compare_pos: first Dec, and then RA
compare_pos(ra1, ra2, dec1, dec2, ra, dec) ==
  IF dec < dec1 THEN -1
  ELSE IF dec >= dec2 THEN 1
  ELSE IF ra < ra1 THEN -1
  ELSE IF ra >= ra2 THEN 1
  ELSE 0

\* An outcome of a lookup: the value returned, or the process killed by a
\* read outside the coordinate arrays.
Ret(v)  == [crash |-> FALSE, id |-> v]
Crash   == [crash |-> TRUE,  id |-> NOT_FOUND]

\* find_brick of get_brick.h: l, u and i are size_t.  `u = i - 1` with i = 0
\* wraps to SIZE_MAX, the loop goes on and brick->ra1[i] is read outside the
\* array: undefined behaviour, whose outcomes are the process being killed,
\* the garbage comparing as "inside" (the invalid index is returned) or the
\* search ending with -1.
RECURSIVE find_brick_loop(_, _, _, _, _)
find_brick_loop(b, ra, dec, l, u) ==
  IF ~(l <= u) THEN { Ret(NOT_FOUND) }
  ELSE LET i == ((l + u) % SizeMod) \div 2 IN
       IF i >= Len(b) THEN { Crash, Ret(i), Ret(NOT_FOUND) }
       ELSE LET c == compare_pos(b[i + 1].ra1, b[i + 1].ra2, b[i + 1].dec1,
                                 b[i + 1].dec2, ra, dec) IN
            IF c > 0 THEN find_brick_loop(b, ra, dec, (i + 1) % SizeMod, u)
            ELSE IF c < 0 THEN find_brick_loop(b, ra, dec, l, (i - 1) % SizeMod)
            ELSE { Ret(i) }

find_brick(b, ra, dec) ==
  find_brick_loop(b, ra, dec, 0, (Len(b) - 1) % SizeMod)

\* find_brick of the first program (find_brick.c): i, l and u are long
RECURSIVE find_brick_long_loop(_, _, _, _, _)
find_brick_long_loop(b, ra, dec, l, u) ==
  IF ~(l <= u) THEN NOT_FOUND
  ELSE LET i == (l + u) \div 2 IN
       LET c == compare_pos(b[i + 1].ra1, b[i + 1].ra2, b[i + 1].dec1,
                            b[i + 1].dec2, ra, dec) IN
       IF c > 0 THEN find_brick_long_loop(b, ra, dec, i + 1, u)
       ELSE IF c < 0 THEN find_brick_long_loop(b, ra, dec, l, i - 1)
       ELSE i

find_brick_long(b, ra, dec) == find_brick_long_loop(b, ra, dec, 0, Len(b) - 1)

(***************************************************************************)
(* SpecFind: a brick list is loaded and coordinates are looked up          *)
(***************************************************************************)
NoQuery == [ra |-> 0, dec |-> 0, long |-> FALSE]

NoConf == [mnull |-> 0, enull |-> 0, fmt |-> "ASCII"]
NoData == [n |-> 0, ra |-> << >>, dec |-> << >>, id |-> << >>, idx |-> << >>,
           mask |-> << >>, nexp |-> << << >>, << >>, << >> >>,
           mtype |-> 0, etype |-> <<0, 0, 0>>, nbrick |-> 0]
NoMask == [size |-> 0, bytes |-> 0, dtype |-> 0, etype |-> <<0, 0, 0>>]

\* the state before main() has done anything
Blank ==
  /\ pc = "start"
  /\ brick = << >>
  /\ q = NoQuery
  /\ res = Ret(NOT_FOUND)
  /\ conf = NoConf
  /\ files = << >>
  /\ cat = << >>
  /\ data = NoData
  /\ mk = NoMask
  /\ imin = 0
  /\ opened = {}
  /\ out = << >>
  /\ err = 0
  /\ grp = 0
  /\ sub = 0
  /\ masktype = 0
  /\ size = 0
  /\ scatter = << >>
  /\ task = << >>
  /\ thr = << >>
  /\ taken = {}
  /\ wrote = << >>
  /\ cause = "none"

InitFind ==
  /\ Blank
  /\ build = [eboss |-> FALSE]

\* get_brick: read_brick, then check_brick; NULL on error
get_brick_ok ==
  /\ pc = "start"
  /\ \E t \in BrickLists(MaxBrick) :
       /\ Len(t) > 0
       /\ check_brick(t)
       /\ brick' = t
  /\ pc' = "bricks"
  /\ UNCHANGED <<q, res>>
  /\ UNCHANGED <<pvars, lvars, wvars, xvars>>

get_brick_fail ==
  /\ pc = "start"
  /\ \E t \in BrickLists(MaxBrick) :
       /\ Len(t) > 0
       /\ ~check_brick(t)
  /\ pc' = "fail"
  /\ UNCHANGED <<brick, q, res>>
  /\ UNCHANGED <<pvars, lvars, wvars, xvars>>

\* one call of find_brick (get_brick.h)
Lookup ==
  /\ pc = "bricks"
  /\ \E ra \in SkyRa, dec \in SkyDec :
       /\ q' = [ra |-> ra, dec |-> dec, long |-> FALSE]
       /\ \E o \in find_brick(brick, ra, dec) : res' = o
  /\ pc' = "found"
  /\ UNCHANGED brick
  /\ UNCHANGED <<pvars, lvars, wvars, xvars>>

\* one call of find_brick (find_brick.c of the first program)
LookupLong ==
  /\ pc = "bricks"
  /\ \E ra \in SkyRa, dec \in SkyDec :
       /\ q' = [ra |-> ra, dec |-> dec, long |-> TRUE]
       /\ res' = Ret(find_brick_long(brick, ra, dec))
  /\ pc' = "found"
  /\ UNCHANGED brick
  /\ UNCHANGED <<pvars, lvars, wvars, xvars>>

(***************************************************************************)
(* Data types and error codes                                              *)
(***************************************************************************)
\* CFITSIO data type codes, as read_mask returns them
TBYTE  == 11
TSHORT == 21
TINT   == 31
TLONG  == 41

UINT8_MAX  == 255
UINT16_MAX == 65535

BRICKMASK_ERR_MEMORY  == -1
BRICKMASK_ERR_BRICK   == -2
BRICKMASK_ERR_FILE    == -3
BRICKMASK_ERR_CFG     == -4
BRICKMASK_ERR_MASK    == -6
BRICKMASK_ERR_SAVE    == -12
BRICKMASK_ERR_UNKNOWN == -99

BRICKMASK_TOL == 1

EBOSS_XYBUG_BIT == 4
EBOSS_MASK_VALID(bit) == bit % 2 = 1
\* a test of the xybug flag that never finds it
xybug_never(bit) == FALSE

EBOSS_XYBUG_VALID(bit) == (bit \div EBOSS_XYBUG_BIT) % 2 = 1

\* data_init: the data type required by a null code.  The values of the
\* model stay below 2^31, so the UINT32_MAX test always takes its first arm.
null_dtype(null) ==
  IF null < UINT8_MAX THEN TBYTE
  ELSE IF null < UINT16_MAX THEN TSHORT
  ELSE TINT

\* the value stored by the cast of a uint64_t to the type dtype
cast(v, dtype) ==
  IF dtype = TBYTE THEN v % (UINT8_MAX + 1)
  ELSE IF dtype = TSHORT THEN v % (UINT16_MAX + 1)
  ELSE v

(***************************************************************************)
(* Mask files                                                              *)
(***************************************************************************)
BYTE_IMG  == 8
SHORT_IMG == 16
LONG_IMG  == 32
LONGLONG_IMG == 64

\* the data type of a pixel of bitpix bits
img_dtype(bitpix) ==
  CASE bitpix = BYTE_IMG     -> TBYTE
    [] bitpix = SHORT_IMG    -> TSHORT
    [] bitpix = LONG_IMG     -> TINT
    [] bitpix = LONGLONG_IMG -> TLONG
    [] OTHER                 -> 0

NoFile ==
  [exists |-> FALSE, bitpix |-> 0, naxis |-> 0, dim |-> <<0, 0>>,
   ctype |-> << "", "" >>, crval |-> <<0, 0>>, crpix |-> <<0, 0>>,
   cd |-> << <<0, 0>>, <<0, 0>> >>, keys |-> {}, pix |-> << >>]

\* a 2 x 2 image whose reference pixel is the lower corner of the brick row r
\* and whose pixels are half a sky unit wide; keys holds the keywords of the
\* header other than those of the linear TAN scheme
Image(r, bitpix, pix) ==
  [exists |-> TRUE, bitpix |-> bitpix, naxis |-> 2, dim |-> <<2, 2>>,
   ctype |-> << "RA---TAN", "DEC--TAN" >>, crval |-> <<r.ra1, r.dec1>>,
   crpix |-> <<1, 1>>, cd |-> << <<2, 0>>, <<0, 2>> >>, keys |-> {},
   pix |-> pix]

FileKinds == { "none", "M8", "M16", "N8", "D8" }

\* the file of kind k that belongs to the brick row r
FileOf(r, k) ==
  IF k = "M8" THEN Image(r, BYTE_IMG, <<1, 3, 5, 2>>)
  ELSE IF k = "M16" THEN Image(r, SHORT_IMG, <<300, 7, 9, 260>>)
  ELSE IF k = "N8" THEN Image(r, BYTE_IMG, <<0, 1, 2, 3>>)
  ELSE IF k = "D8"
  THEN [Image(r, BYTE_IMG, <<1, 3, 5, 2>>) EXCEPT !.keys = {"DISTORT"}]
  ELSE NoFile

(***************************************************************************)
(* world2pix                                                               *)
(***************************************************************************)
\* a division that always rounds down
round_down(n, d) == n \div d

\* divisions of n by d > 0: C's round() (half away from zero) and the
\* conversion (long) (towards zero)
RoundDiv(n, d) ==
  IF n >= 0 THEN (2 * n + d) \div (2 * d) ELSE 0 - ((d - 2 * n) \div (2 * d))

TruncDiv(n, d) ==
  IF n >= 0 THEN n \div d ELSE 0 - ((0 - n) \div d)

\* world2pix: the tangent-plane offsets (xx, yy) of the TAN scheme, which on
\* the sky grid are the offsets from the reference point, followed by the
\* code's linear transformation with the inverse of the CD matrix.  The pixel
\* coordinate is the fraction xn / d (yn / d), d > 0.
world2pix(wcs, ra, dec) ==
  LET xx  == ra - wcs.crval[1]
      yy  == dec - wcs.crval[2]
      det == wcs.cd[1][1] * wcs.cd[2][2] - wcs.cd[1][2] * wcs.cd[2][1]
      xn  == (xx * wcs.cd[2][2] - yy * wcs.cd[1][2]) + (wcs.crpix[1] - 1) * det
      yn  == (yy * wcs.cd[1][1] - xx * wcs.cd[2][1]) + (wcs.crpix[2] - 1) * det
  IN  IF det > 0 THEN [xn |-> xn, yn |-> yn, d |-> det]
      ELSE [xn |-> 0 - xn, yn |-> 0 - yn, d |-> 0 - det]

(***************************************************************************)
(* assign_bitcode (bit_code.c)                                             *)
(***************************************************************************)
\* the loop of assign_bitcode_<type> over the objects imin < i <= imax
\* (1-based); m holds the image that read_mask has put into the MASK.
\* Returns the status and the array of codes.
RECURSIVE assign_bitcode(_, _, _, _, _, _, _)
assign_bitcode(m, ra, dec, code, i, imax, eboss) ==
  IF i > imax THEN [st |-> "ok", code |-> code]
  ELSE
    LET p   == world2pix(m, ra[i], dec[i])
        rx  == RoundDiv(p.xn, p.d)
        ry  == RoundDiv(p.yn, p.d)
        ix  == TruncDiv(p.xn, p.d)
        iy  == TruncDiv(p.yn, p.d)
    IN
    IF rx < 0 \/ rx >= m.dim[1] \/ ry < 0 \/ ry >= m.dim[2]
    THEN [st |-> "err", code |-> code]
    ELSE
      LET bit == m.pix[rx + ry * m.dim[1] + 1] IN
      IF eboss THEN
        IF ~EBOSS_MASK_VALID(bit)
        THEN assign_bitcode(m, ra, dec, code, i + 1, imax, eboss)
        ELSE
          LET c1 == IF EBOSS_XYBUG_VALID(bit)
                    THEN [code EXCEPT ![i] = @ + bit - EBOSS_XYBUG_BIT]
                    ELSE [code EXCEPT ![i] = @ + bit]
          IN
          IF ix < 0 \/ ix >= m.dim[1] \/ iy < 0 \/ iy >= m.dim[2]
          THEN [st |-> "err", code |-> c1]
          ELSE
            LET tbit == m.pix[ix + iy * m.dim[1] + 1]
                c2 == IF EBOSS_XYBUG_VALID(tbit)
                      THEN [c1 EXCEPT ![i] = @ + EBOSS_XYBUG_BIT]
                      ELSE c1
            IN assign_bitcode(m, ra, dec, c2, i + 1, imax, eboss)
      ELSE
        assign_bitcode(m, ra, dec, [code EXCEPT ![i] = @ + bit],
                       i + 1, imax, eboss)

\* the bitwise AND of two unsigned values
RECURSIVE BitAnd(_, _)
BitAnd(a, b) ==
  IF a = 0 \/ b = 0 THEN 0
  ELSE (a % 2) * (b % 2) + 2 * BitAnd(a \div 2, b \div 2)

\* a tagging that does not look at the pixel value
RECURSIVE tag_always(_, _, _, _, _, _, _, _, _)
tag_always(m, ra, dec, tags, i, imax, eboss, mnull, subid) ==
  IF i > imax THEN tags
  ELSE tag_always(m, ra, dec, [tags EXCEPT ![i] = subid], i + 1, imax, eboss,
                  mnull, subid)

\* the subsample IDs the loop of assign_bitcode leaves in data->subid (the
\* array tags) for the objects i .. imax; subid is the ID of the mask source,
\* mnull the bit code for objects outside the bricks.  The loop ends at the
\* first object whose pixel is outside the image.
RECURSIVE assign_bitcode_subid(_, _, _, _, _, _, _, _, _)
assign_bitcode_subid(m, ra, dec, tags, i, imax, eboss, mnull, subid) ==
  IF i > imax THEN tags
  ELSE
    LET p   == world2pix(m, ra[i], dec[i])
        rx  == RoundDiv(p.xn, p.d)
        ry  == RoundDiv(p.yn, p.d)
        ix  == TruncDiv(p.xn, p.d)
        iy  == TruncDiv(p.yn, p.d)
    IN
    IF rx < 0 \/ rx >= m.dim[1] \/ ry < 0 \/ ry >= m.dim[2] THEN tags
    ELSE
      LET bit == m.pix[rx + ry * m.dim[1] + 1] IN
      IF eboss THEN
        IF ~EBOSS_MASK_VALID(bit)
        THEN assign_bitcode_subid(m, ra, dec, tags, i + 1, imax, eboss, mnull,
                                  subid)
        ELSE IF ix < 0 \/ ix >= m.dim[1] \/ iy < 0 \/ iy >= m.dim[2]
        THEN tags
        ELSE assign_bitcode_subid(m, ra, dec, [tags EXCEPT ![i] = subid],
                                  i + 1, imax, eboss, mnull, subid)
      ELSE
        assign_bitcode_subid(m, ra, dec,
                             IF BitAnd(bit, mnull) = 0
                             THEN [tags EXCEPT ![i] = subid] ELSE tags,
                             i + 1, imax, eboss, mnull, subid)

(***************************************************************************)
(* read_mask and assign_mask_from_file                                     *)
(***************************************************************************)
\* store a data type in the slot of the MASK that the caller passed:
\* 0 is mask->dtype, k = 1..3 is mask->etype[k - 1]
set_dtype(m, slot, t) ==
  IF slot = 0 THEN [m EXCEPT !.dtype = t] ELSE [m EXCEPT !.etype[slot] = t]

\* read_mask: the outcomes [st, m] of reading the file f into the MASK m.
\* The buffer is enlarged only when the image has more pixels than any image
\* before; it then has room for mask->size pixels of the width of that image.
\* The read stores mask->size pixels of the current width: it overruns the
\* buffer when the width is larger than the one the buffer was sized with
\* (undefined: the process is killed or goes on), and it asks the file for
\* more pixels than it has when an earlier image was larger.
\* nread is the number of pixels the read asks the file for.
read_mask(f, m, slot) ==
  IF f.naxis # 2 \/ f.dim[1] <= 0 \/ f.dim[2] <= 0
     \/ f.ctype[1] # "RA---TAN" \/ f.ctype[2] # "DEC--TAN"
  THEN { [st |-> "err", m |-> m, nread |-> 0] }
  ELSE
    LET npix == f.dim[1] * f.dim[2]
        m1 == IF npix > m.size
              THEN [m EXCEPT !.size = npix, !.bytes = npix * (f.bitpix \div 8)]
              ELSE m
    IN
    IF img_dtype(f.bitpix) = 0
    THEN { [st |-> "err", m |-> m1, nread |-> 0] }
    ELSE
      LET m2 == set_dtype(m1, slot, img_dtype(f.bitpix))
          det == f.cd[1][1] * f.cd[2][2] - f.cd[1][2] * f.cd[2][1]
      IN
      IF det = 0 THEN { [st |-> "err", m |-> m2, nread |-> 0] }
      ELSE IF m2.size > npix
      THEN { [st |-> "err", m |-> m2, nread |-> m2.size] }
      ELSE IF m2.size * (f.bitpix \div 8) > m2.bytes
      THEN { [st |-> "crash", m |-> m2, nread |-> m2.size],
             [st |-> "ok", m |-> m2, nread |-> m2.size] }
      ELSE { [st |-> "ok", m |-> m2, nread |-> m2.size] }

\* a lookup of the file that treats a missing file as a failure
missing_file_fails(f, m, slot, ra, dec, code, vnull, imin0, imax, eboss) ==
  IF ~f.exists
  THEN { [st |-> "err", m |-> m, read |-> FALSE, code |-> code] }
  ELSE
    { IF o.st # "ok"
      THEN [st |-> o.st, m |-> o.m, read |-> TRUE, code |-> code]
      ELSE LET a == assign_bitcode(f, ra, dec, code, imin0 + 1, imax, eboss)
           IN [st |-> a.st, m |-> o.m, read |-> TRUE, code |-> a.code]
      : o \in read_mask(f, m, slot) }

\* assign_mask_from_file: the outcomes [st, m, code, read] for the objects
\* imin < i <= imax; read tells whether read_mask was called
assign_mask_from_file(f, m, slot, ra, dec, code, vnull, imin0, imax, eboss) ==
  IF ~f.exists
  THEN { [st |-> "ok", m |-> m, read |-> FALSE,
          code |-> [i \in 1 .. Len(code) |->
                      IF imin0 < i /\ i <= imax THEN vnull ELSE code[i]]] }
  ELSE
    { IF o.st # "ok"
      THEN [st |-> o.st, m |-> o.m, read |-> TRUE, code |-> code]
      ELSE LET a == assign_bitcode(f, ra, dec, code, imin0 + 1, imax, eboss)
           IN [st |-> a.st, m |-> o.m, read |-> TRUE, code |-> a.code]
      : o \in read_mask(f, m, slot) }

(***************************************************************************)
(* Inputs of a run                                                         *)
(***************************************************************************)
MaxObj == 3            \* objects of the input catalogue

\* two bricks side by side, [0,2) x [0,2) and [2,4) x [0,2), with the
\* photometric region given
BrickA(photsys) ==
  [ra1 |-> 0, ra2 |-> 2, dec1 |-> 0, dec2 |-> 2, photsys |-> photsys]
BrickB(photsys) ==
  [ra1 |-> 2, ra2 |-> 4, dec1 |-> 0, dec2 |-> 2, photsys |-> photsys]

\* the brick lists a run may be given: both bricks, both bricks with the
\* second outside the photometric regions, one brick alone, and a list that
\* is out of order
RunBricks ==
  { << BrickA("N"), BrickB("S") >>, << BrickA("S"), BrickB(" ") >>,
    << BrickA("S") >>, << BrickB("S") >>, << BrickB("S"), BrickA("N") >> }

\* the files of one brick: kind of the maskbits file, kind of the nexp files
BrickFiles ==
  { [mask |-> "none", nexp |-> "none"], [mask |-> "M8", nexp |-> "none"],
    [mask |-> "M8", nexp |-> "N8"], [mask |-> "M16", nexp |-> "N8"],
    [mask |-> "D8", nexp |-> "none"] }

\* the coordinates of the objects
ObjPoints == { <<1, 1>>, <<3, 1>>, <<0, 0>> }

RECURSIVE Catalogs(_)
Catalogs(k) ==
  IF k = 0 THEN { << >> }
  ELSE LET P == Catalogs(k - 1) IN
       P \cup { Append(c, o) : c \in { x \in P : Len(x) = k - 1 },
                               o \in ObjPoints }

Confs == [mnull : {1, UINT8_MAX}, enull : {0}, fmt : {"ASCII", "FITS"}]

(***************************************************************************)
(* Spec: main() of brickmask.c                                             *)
(***************************************************************************)
Init ==
  /\ Blank
  /\ build = [eboss |-> FALSE]

Exit(code) ==
  /\ pc' = "exit"
  /\ err' = code

\* load_conf
main_load_conf ==
  /\ pc = "start"
  /\ conf' \in Confs
  /\ pc' = "conf"
  /\ UNCHANGED <<brick, build, files, cat, data, mk, imin, opened, out, err>>
  /\ UNCHANGED <<fvars, lvars, wvars, xvars>>

\* get_brick: read the brick list and check its order
main_get_brick ==
  /\ pc = "conf"
  /\ \E t \in RunBricks :
       IF check_brick(t)
       THEN /\ brick' = t
            /\ files' \in [1 .. Len(t) -> BrickFiles]
            /\ pc' = "brick"
            /\ UNCHANGED err
       ELSE /\ Exit(BRICKMASK_ERR_BRICK)
            /\ UNCHANGED <<brick, files>>
  /\ UNCHANGED <<build, conf, cat, data, mk, imin, opened, out>>
  /\ UNCHANGED <<fvars, lvars, wvars, xvars>>

\* the columns with every element set to the null code
null_columns(c, cf) ==
  [n |-> Len(c),
   ra |-> [i \in 1 .. Len(c) |-> c[i][1]],
   dec |-> [i \in 1 .. Len(c) |-> c[i][2]],
   id |-> [i \in 1 .. Len(c) |-> 0],
   idx |-> [i \in 1 .. Len(c) |-> i - 1],
   mask |-> [i \in 1 .. Len(c) |-> cf.mnull],
   nexp |-> [k \in 1 .. 3 |-> [i \in 1 .. Len(c) |-> cf.enull]],
   mtype |-> null_dtype(cf.mnull),
   etype |-> [k \in 1 .. 3 |-> null_dtype(cf.enull)],
   nbrick |-> 0]

\* read_data: the DATA for the rows c of the catalogue: data_init sets the
\* data types from the null codes; idx is the identity; mask and nexp are
\* zeroed by calloc
new_data(c, cf) ==
  [n |-> Len(c),
   ra |-> [i \in 1 .. Len(c) |-> c[i][1]],
   dec |-> [i \in 1 .. Len(c) |-> c[i][2]],
   id |-> [i \in 1 .. Len(c) |-> 0],
   idx |-> [i \in 1 .. Len(c) |-> i - 1],
   mask |-> [i \in 1 .. Len(c) |-> 0],
   nexp |-> [k \in 1 .. 3 |-> [i \in 1 .. Len(c) |-> 0]],
   mtype |-> null_dtype(cf.mnull),
   etype |-> [k \in 1 .. 3 |-> null_dtype(cf.enull)],
   nbrick |-> 0]

\* read_data: fails when the catalogues hold no object
main_read_data ==
  /\ pc = "brick"
  /\ \E c \in Catalogs(MaxObj) :
       IF Len(c) = 0
       THEN /\ Exit(BRICKMASK_ERR_FILE)
            /\ UNCHANGED <<cat, data>>
       ELSE /\ cat' = c
            /\ data' = new_data(c, conf)
            /\ pc' = "data"
            /\ UNCHANGED err
  /\ UNCHANGED <<brick, build, conf, files, mk, imin, opened, out>>
  /\ UNCHANGED <<fvars, lvars, wvars, xvars>>

(***************************************************************************)
(* sort_data                                                               *)
(***************************************************************************)
\* get_brick_id: the coordinate looked up for an object
lookup_ra(ra) == IF ra = RA_FULL THEN ra - BRICKMASK_TOL ELSE ra
lookup_dec(dec) == IF dec = DEC_TOP THEN dec - BRICKMASK_TOL ELSE dec

\* a loop that passes over the objects no brick holds
RECURSIVE get_brick_id_lenient(_, _, _, _, _)
get_brick_id_lenient(b, ra, dec, id, i) ==
  IF i > Len(ra) THEN { [st |-> "ok", ra |-> ra, dec |-> dec, id |-> id] }
  ELSE
    LET r1 == [ra EXCEPT ![i] = lookup_ra(@)]
        d1 == [dec EXCEPT ![i] = lookup_dec(@)]
    IN UNION
       { IF o.crash
         THEN { [st |-> "crash", ra |-> r1, dec |-> d1, id |-> id] }
         ELSE get_brick_id_lenient(b, r1, d1, [id EXCEPT ![i] = o.id], i + 1)
         : o \in find_brick(b, r1[i], d1[i]) }

\* get_brick_id: the outcomes [st, ra, dec, id] of the loop over the objects
\* from i on; the loop stops at the first negative id
RECURSIVE get_brick_id(_, _, _, _, _)
get_brick_id(b, ra, dec, id, i) ==
  IF i > Len(ra) THEN { [st |-> "ok", ra |-> ra, dec |-> dec, id |-> id] }
  ELSE
    LET r1 == [ra EXCEPT ![i] = lookup_ra(@)]
        d1 == [dec EXCEPT ![i] = lookup_dec(@)]
    IN UNION
       { IF o.crash
         THEN { [st |-> "crash", ra |-> r1, dec |-> d1, id |-> id] }
         ELSE IF o.id < 0
         THEN { [st |-> "err", ra |-> r1, dec |-> d1,
                 id |-> [id EXCEPT ![i] = o.id]] }
         ELSE get_brick_id(b, r1, d1, [id EXCEPT ![i] = o.id], i + 1)
         : o \in find_brick(b, r1[i], d1[i]) }

\* read_ascii / read_fits of the first program: ra = 360 is stored as 0
legacy_ra(ra) == IF ra = RA_FULL THEN 0 ELSE ra

\* get_brick_id for one object of the catalogue, the edges ra = 360 and
\* dec = 90 included
LookupObject ==
  /\ pc = "bricks"
  /\ \E ra \in RaEdge, dec \in DecEdge :
       /\ q' = [ra |-> ra, dec |-> dec, long |-> FALSE]
       /\ \E o \in get_brick_id(brick, <<ra>>, <<dec>>, <<0>>, 1) :
            res' = IF o.st = "crash" THEN Crash ELSE Ret(o.id[1])
  /\ pc' = "placed"
  /\ UNCHANGED brick
  /\ UNCHANGED <<pvars, lvars, wvars, xvars>>

\* the first program: an object is read and main() looks its brick up
LookupObjectLong ==
  /\ pc = "bricks"
  /\ \E ra \in RaEdge, dec \in DecEdge :
       /\ q' = [ra |-> ra, dec |-> dec, long |-> TRUE]
       /\ res' = Ret(find_brick_long(brick, legacy_ra(ra), dec))
  /\ pc' = "placed"
  /\ UNCHANGED brick
  /\ UNCHANGED <<pvars, lvars, wvars, xvars>>

NextFind ==
  \/ get_brick_ok
  \/ get_brick_fail
  \/ Lookup
  \/ LookupLong
  \/ LookupObject
  \/ LookupObjectLong

SpecFind == InitFind /\ [][NextFind]_vars

Perms(n) ==
  { f \in [1 .. n -> 1 .. n] : \A i \in 1 .. n : \E j \in 1 .. n : f[j] = i }

\* tim_sort(data->id, data, n): some rearrangement of the objects after
\* which the ids ascend; the rows of id, ra, dec and idx move together
tim_sort(id) ==
  { f \in Perms(Len(id)) :
      \A i \in 1 .. Len(id) - 1 : id[f[i]] <= id[f[i + 1]] }

\* the number of runs of equal ids
count_brick(id) ==
  Cardinality({ i \in 1 .. Len(id) : i = 1 \/ id[i] # id[i - 1] })

main_sort_data ==
  /\ pc = "data"
  /\ \E o \in get_brick_id(brick, data.ra, data.dec, data.id, 1) :
       IF o.st = "crash"
       THEN /\ pc' = "crash"
            /\ UNCHANGED <<data, err>>
       ELSE IF o.st = "err"
       THEN /\ Exit(BRICKMASK_ERR_BRICK)
            /\ data' = [data EXCEPT !.id = o.id, !.ra = o.ra, !.dec = o.dec]
       ELSE \E f \in tim_sort(o.id) :
              /\ data' = [data EXCEPT
                            !.id = [i \in 1 .. data.n |-> o.id[f[i]]],
                            !.ra = [i \in 1 .. data.n |-> o.ra[f[i]]],
                            !.dec = [i \in 1 .. data.n |-> o.dec[f[i]]],
                            !.idx = [i \in 1 .. data.n |-> data.idx[f[i]]],
                            !.nbrick = count_brick(
                                         [i \in 1 .. data.n |-> o.id[f[i]]])]
              /\ pc' = "sorted"
              /\ UNCHANGED err
  /\ UNCHANGED <<brick, build, conf, files, cat, mk, imin, opened, out>>
  /\ UNCHANGED <<fvars, lvars, wvars, xvars>>

(***************************************************************************)
(* assign_mask                                                             *)
(***************************************************************************)
\* mask_init: calloc of the MASK
mask_init == NoMask

assign_mask_begin ==
  /\ pc = "sorted"
  /\ mk' = mask_init
  /\ imin' = 0
  /\ pc' = "assign"
  /\ UNCHANGED <<brick, build, conf, files, cat, data, opened, out, err>>
  /\ UNCHANGED <<fvars, lvars, wvars, xvars>>

\* the end of the group of objects that starts at imin (0-based, exclusive)
RECURSIVE group_end(_, _, _)
group_end(id, i0, imax) ==
  IF imax < Len(id) /\ id[imax + 1] = id[i0 + 1]
  THEN group_end(id, i0, imax + 1)
  ELSE imax

\* the objects of a brick outside the photometric regions get the null codes
photsys_null(code, i0, imax, vnull) ==
  [i \in 1 .. Len(code) |-> IF i0 < i /\ i <= imax THEN vnull ELSE code[i]]

\* the four files of a brick, in the order assign_mask reads them, with the
\* slot of the MASK that receives the data type and the null code
brick_files(bid) ==
  << [f |-> FileOf(brick[bid + 1], files[bid + 1].mask), slot |-> 0,
      vnull |-> conf.mnull] >>
  \o [k \in 1 .. 3 |->
        [f |-> FileOf(brick[bid + 1], files[bid + 1].nexp), slot |-> k,
         vnull |-> conf.enull]]

\* the array a slot stands for
slot_code(d, slot) == IF slot = 0 THEN d.mask ELSE d.nexp[slot]
set_code(d, slot, code) ==
  IF slot = 0 THEN [d EXCEPT !.mask = code]
  ELSE [d EXCEPT !.nexp[slot] = code]

\* the outcomes [st, m, d, op] of reading files j .. 4 of the brick for the
\* objects i0 < i <= imax; op collects what read_mask has read
RECURSIVE assign_files(_, _, _, _, _, _, _)
assign_files(fs, j, m, d, op, i0, imax) ==
  IF j > Len(fs) THEN { [st |-> "ok", m |-> m, d |-> d, op |-> op] }
  ELSE UNION
    { LET op1 == IF o.read /\ o.st = "ok"
                 THEN op \cup { << fs[j].slot,
                                   IF fs[j].slot = 0 THEN o.m.dtype
                                   ELSE o.m.etype[fs[j].slot] >> }
                 ELSE op
      IN IF o.st # "ok"
         THEN { [st |-> o.st, m |-> o.m, d |-> d, op |-> op1] }
         ELSE assign_files(fs, j + 1, o.m, set_code(d, fs[j].slot, o.code),
                           op1, i0, imax)
      : o \in assign_mask_from_file(fs[j].f, m, fs[j].slot, d.ra, d.dec,
                                    slot_code(d, fs[j].slot), fs[j].vnull,
                                    i0, imax, build.eboss) }

\* one pass of the while loop of assign_mask: the group that starts at imin.
\* For a brick outside the photometric regions the objects get the null
\* codes and imin is moved to imax inside the for loop, whose `continue`
\* does not leave the while body: the files of the "south" path are still
\* read, for no object.
assign_mask_group ==
  /\ pc = "assign"
  /\ imin < data.n
  /\ LET imax == group_end(data.id, imin, imin + 1)
         bid  == data.id[imin + 1]
     IN
     IF bid >= Len(brick)
     THEN /\ pc' = "crash"
          /\ UNCHANGED <<data, mk, imin, opened, err>>
     ELSE
       LET skip == brick[bid + 1].photsys \notin { "N", "S" }
           d0 == IF skip
                 THEN [data EXCEPT
                         !.mask = photsys_null(@, imin, imax, conf.mnull),
                         !.nexp = [k \in 1 .. 3 |->
                                     photsys_null(@[k], imin, imax, conf.enull)]]
                 ELSE data
           i0 == IF skip THEN imax ELSE imin
       IN \E o \in assign_files(brick_files(bid), 1, mk, d0, opened, i0, imax) :
            IF o.st = "crash"
            THEN /\ pc' = "crash"
                 /\ UNCHANGED <<data, mk, imin, opened, err>>
            ELSE IF o.st = "err"
            THEN /\ Exit(BRICKMASK_ERR_MASK)
                 /\ UNCHANGED <<data, mk, imin, opened>>
            ELSE /\ data' = o.d
                 /\ mk' = o.m
                 /\ opened' = o.op
                 /\ imin' = imax
                 /\ UNCHANGED <<pc, err>>
  /\ UNCHANGED <<brick, build, conf, files, cat, out>>
  /\ UNCHANGED <<fvars, lvars, wvars, xvars>>

\* after the loop: the data types of the output columns
assign_mask_end ==
  /\ pc = "assign"
  /\ ~(imin < data.n)
  /\ data' = [data EXCEPT
                !.mtype = IF @ < mk.dtype THEN mk.dtype ELSE @,
                !.etype = [k \in 1 .. 3 |->
                             IF @[k] < mk.etype[k] THEN mk.etype[k] ELSE @[k]]]
  /\ pc' = "assigned"
  /\ UNCHANGED <<brick, build, conf, files, cat, mk, imin, opened, out, err>>
  /\ UNCHANGED <<fvars, lvars, wvars, xvars>>

\* a narrowing that leaves every code where the sort has put it
RECURSIVE reorder_unmoved(_, _, _, _, _)
reorder_unmoved(code, dtype, idx, i, new) ==
  IF i > Len(code) THEN new
  ELSE reorder_unmoved(code, dtype, idx, i + 1,
                       [new EXCEPT ![i] = cast(code[i], dtype)])

(***************************************************************************)
(* reorder_data and save_data                                              *)
(***************************************************************************)
\* reorder_mask_reduce: mask[idx[i]] = code[i] for i = 0 .. ndata - 1, each
\* value cast to the type dtype; new is the array written so far
RECURSIVE reorder_mask_reduce(_, _, _, _, _)
reorder_mask_reduce(code, dtype, idx, i, new) ==
  IF i > Len(code) THEN new
  ELSE reorder_mask_reduce(code, dtype, idx, i + 1,
                           [new EXCEPT ![idx[i] + 1] = cast(code[i], dtype)])

\* reorder_mask: the same with uint64_t elements
reorder_mask(code, idx, i, new) ==
  reorder_mask_reduce(code, TLONG, idx, i, new)

\* the array malloc returns: no element holds a code yet
Fresh(n) == [i \in 1 .. n |-> 0 - 1]

reorder_data ==
  /\ pc = "assigned"
  /\ IF conf.fmt = "ASCII"
     THEN /\ data' = [data EXCEPT
                 !.mask = reorder_mask(@, data.idx, 1, Fresh(data.n)),
                 !.nexp = [k \in 1 .. 3 |->
                             reorder_mask(@[k], data.idx, 1, Fresh(data.n))]]
          /\ pc' = "reordered"
          /\ UNCHANGED err
     ELSE IF data.mtype \in { TBYTE, TSHORT, TINT, TLONG }
             /\ \A k \in 1 .. 3 : data.etype[k] \in { TBYTE, TSHORT, TINT, TLONG }
     THEN /\ data' = [data EXCEPT
                 !.mask = reorder_mask_reduce(@, data.mtype, data.idx, 1,
                                              Fresh(data.n)),
                 !.nexp = [k \in 1 .. 3 |->
                             reorder_mask_reduce(@[k], data.etype[k], data.idx,
                                                 1, Fresh(data.n))]]
          /\ pc' = "reordered"
          /\ UNCHANGED err
     ELSE /\ Exit(BRICKMASK_ERR_UNKNOWN)
          /\ UNCHANGED data
  /\ UNCHANGED <<brick, build, conf, files, cat, mk, imin, opened, out>>
  /\ UNCHANGED <<fvars, lvars, wvars, xvars>>

\* save_data: row i of the input followed by mask[i] and nexp[k][i]
main_save_data ==
  /\ pc = "reordered"
  /\ out' = [i \in 1 .. data.n |->
               [row |-> cat[i], mask |-> data.mask[i],
                nexp |-> [k \in 1 .. 3 |-> data.nexp[k][i]]]]
  /\ pc' = "done"
  /\ err' = 0
  /\ UNCHANGED <<brick, build, conf, files, cat, data, mk, imin, opened>>
  /\ UNCHANGED <<fvars, lvars, wvars, xvars>>

Next ==
  \/ main_load_conf
  \/ main_get_brick
  \/ main_read_data
  \/ main_sort_data
  \/ assign_mask_begin
  \/ assign_mask_group
  \/ assign_mask_end
  \/ reorder_data
  \/ main_save_data

Spec == Init /\ [][Next]_vars

(***************************************************************************)
(* SpecLegacy: main() of the first program (src/brickmask.c), built        *)
(* without OMP.  Every brick has up to NUMSUB subsample mask files.        *)
(***************************************************************************)
NUMSUB == 4
XYBUG == 4
BAD_ORDER == 208
KEY_OUT_BOUNDS == 203
BAD_KEYCHAR == 207
WCS_ERROR == 503
ERR_FILE == -3
ERR_INPUT == -4
ERR_RANGE == -5

MASK_VALID(bit) == bit % 2 = 1
XYBUG_VALID(bit) == (bit \div 4) % 2 = 1

\* the four subsample files of one brick
SubFiles ==
  { << "none", "none", "none", "none" >>, << "E1", "none", "none", "none" >>,
    << "E1", "E2", "none", "none" >>, << "none", "E3", "none", "E2" >>,
    << "E3", "none", "E4", "none" >>, << "E16", "none", "none", "E3" >>,
    << "E1", "ED", "none", "none" >> }

\* the file of kind k that belongs to the brick row r.  An object at offset
\* (1,1) of its brick has the rounded pixel (1,1) and the truncated pixel
\* (0,0).
SubFileOf(r, k) ==
  IF k = "E1" THEN Image(r, BYTE_IMG, <<1, 3, 9, 5>>)
  ELSE IF k = "E2" THEN Image(r, BYTE_IMG, <<7, 2, 3, 3>>)
  ELSE IF k = "E3" THEN Image(r, BYTE_IMG, <<9, 2, 3, 11>>)
  ELSE IF k = "E4" THEN Image(r, BYTE_IMG, <<129, 2, 3, 131>>)
  ELSE IF k = "E16" THEN Image(r, SHORT_IMG, <<257, 2, 3, 259>>)
  ELSE IF k = "ED"
  THEN [Image(r, BYTE_IMG, <<7, 2, 3, 3>>) EXCEPT !.keys = {"DISTORT"}]
  ELSE NoFile

InitLegacy ==
  /\ Blank
  /\ build = [eboss |-> TRUE]

\* byte b (0-based) of the pixel buffer, whose pixels are nbyte bytes wide
\* and stored least significant byte first
byte_at(pix, b, nbyte) ==
  IF nbyte = 1 THEN pix[b + 1]
  ELSE IF b % 2 = 0 THEN pix[(b \div 2) + 1] % (UINT8_MAX + 1)
  ELSE pix[(b \div 2) + 1] \div (UINT8_MAX + 1)

\* read_list and the order checks of main()
legacy_read_list ==
  /\ pc = "start"
  /\ \E t \in RunBricks, fmt \in { "ASCII", "FITS" } :
       IF check_brick(t)
       THEN /\ brick' = t
            /\ files' \in [1 .. Len(t) -> SubFiles]
            /\ conf' = [NoConf EXCEPT !.fmt = fmt]
            /\ pc' = "brick"
            /\ UNCHANGED err
       ELSE /\ Exit(BAD_ORDER)
            /\ UNCHANGED <<brick, files, conf>>
  /\ UNCHANGED <<build, cat, data, mk, imin, opened, out>>
  /\ UNCHANGED <<fvars, lvars, wvars, xvars>>

\* read_ascii / read_fits: the array is zeroed by memset, ra = 360 becomes 0;
\* only read_fits stores the original index.  row stands for the rest of
\* the input line.
legacy_read_data ==
  /\ pc = "brick"
  /\ \E c \in Catalogs(MaxObj) \ { << >> } :
       /\ cat' = c
       /\ data' = [n |-> Len(c),
                   ra |-> [i \in 1 .. Len(c) |-> legacy_ra(c[i][1])],
                   dec |-> [i \in 1 .. Len(c) |-> c[i][2]],
                   id |-> [i \in 1 .. Len(c) |-> 0],
                   idx |-> [i \in 1 .. Len(c) |->
                              IF conf.fmt = "FITS" THEN i - 1 ELSE 0],
                   row |-> [i \in 1 .. Len(c) |-> i],
                   mask |-> [i \in 1 .. Len(c) |-> 0],
                   flag |-> [i \in 1 .. Len(c) |-> 0]]
  /\ pc' = "data"
  /\ UNCHANGED <<brick, build, conf, files, mk, imin, opened, out, err>>
  /\ UNCHANGED <<fvars, lvars, wvars, xvars>>

\* find_brick for every object, then qsort by brick: some rearrangement
\* of the structures after which the bricks ascend
legacy_find_brick ==
  /\ pc = "data"
  /\ LET id == [i \in 1 .. data.n |->
                  find_brick_long(brick, data.ra[i], data.dec[i])]
     IN IF \E i \in 1 .. data.n : id[i] < 0
        THEN /\ Exit(ERR_RANGE)
             /\ UNCHANGED <<data, mk, grp, sub, masktype>>
        ELSE \E f \in tim_sort(id) :
               /\ data' = [data EXCEPT
                             !.id = [i \in 1 .. data.n |-> id[f[i]]],
                             !.ra = [i \in 1 .. data.n |-> data.ra[f[i]]],
                             !.dec = [i \in 1 .. data.n |-> data.dec[f[i]]],
                             !.idx = [i \in 1 .. data.n |-> data.idx[f[i]]],
                             !.row = [i \in 1 .. data.n |-> data.row[f[i]]]]
               /\ mk' = [dtype |-> 0, d1 |-> 0, d2 |-> 0, bytes |-> 0]
               /\ grp' = 0
               /\ sub' = 0
               /\ masktype' = 0
               /\ pc' = "mask"
               /\ UNCHANGED err
  /\ UNCHANGED <<brick, build, conf, files, cat, imin, opened, out>>
  /\ UNCHANGED <<fvars, wvars, xvars>>

\* ubi[m]: the start (0-based) of group m of the sorted objects
RECURSIVE ubi(_, _)
ubi(id, m) ==
  IF m = 0 THEN 0 ELSE group_end(id, ubi(id, m - 1), ubi(id, m - 1) + 1)

\* read_brick_mask: the outcomes [st, m] of reading the image f
\* (nread is the number of pixels the read asks the file for)
read_brick_mask(f, m) ==
  IF f.naxis # 2 \/ img_dtype(f.bitpix) = 0
  THEN { [st |-> "err", m |-> m, nread |-> 0] }
  ELSE
    LET t == img_dtype(f.bitpix)
        totpix == f.dim[1] * f.dim[2]
        m1 == IF totpix # m.d1 * m.d2
              THEN [dtype |-> t, d1 |-> f.dim[1], d2 |-> f.dim[2],
                    bytes |-> totpix * (f.bitpix \div 8)]
              ELSE [m EXCEPT !.dtype = t]
    IN IF totpix * (f.bitpix \div 8) > m1.bytes
       THEN { [st |-> "crash", m |-> m1, nread |-> totpix],
              [st |-> "ok", m |-> m1, nread |-> totpix] }
       ELSE { [st |-> "ok", m |-> m1, nread |-> totpix] }

\* a contribution that replaces what the object has instead of adding to it
legacy_overwrite(mask, bit, tbit) ==
  (IF XYBUG > 0 /\ XYBUG_VALID(bit) THEN bit - XYBUG ELSE bit)
  + (IF XYBUG > 0 /\ XYBUG_VALID(tbit) THEN XYBUG ELSE 0)

\* the code of an object after a valid pixel value bit has been assigned;
\* tbit is the byte read at the truncated pixel
legacy_add(mask, bit, tbit) ==
  (IF XYBUG > 0 /\ XYBUG_VALID(bit) THEN mask + bit - XYBUG ELSE mask + bit)
  + (IF XYBUG > 0 /\ XYBUG_VALID(tbit) THEN XYBUG ELSE 0)

\* the loop over the objects n0 <= n < n1 (1-based: n0 < i <= n1) of main()
\* for subsample file number i0 (0-based)
RECURSIVE legacy_assign(_, _, _, _, _, _)
legacy_assign(f, m, d, i, n1, i0) ==
  IF i > n1 THEN [st |-> "ok", d |-> d]
  ELSE
    LET p == world2pix(f, d.ra[i], d.dec[i])
        j == RoundDiv(p.xn, p.d)
        k == RoundDiv(p.yn, p.d)
        tj == TruncDiv(p.xn, p.d)
        tk == TruncDiv(p.yn, p.d)
    IN
    IF j < 0 \/ j >= m.d1 \/ k < 0 \/ k >= m.d2
    THEN [st |-> "err", d |-> d]
    ELSE
      LET bit == f.pix[j + k * m.d1 + 1] IN
      IF ~MASK_VALID(bit) THEN legacy_assign(f, m, d, i + 1, n1, i0)
      ELSE IF XYBUG > 0 /\ (tj < 0 \/ tj >= m.d1 \/ tk < 0 \/ tk >= m.d2)
      THEN [st |-> "err", d |-> d]
      ELSE
        LET tbit == byte_at(f.pix, tj + tk * m.d1, f.bitpix \div 8)
        IN legacy_assign(f, m,
             [d EXCEPT !.mask[i] = legacy_add(@, bit, tbit),
                       !.flag[i] = @ + 2 ^ i0],
             i + 1, n1, i0)

\* read_wcs_header of the first program: 0, or the status for a projection
\* other than TAN, for a keyword of a scheme that is not supported or for a
\* CD matrix that cannot be inverted
read_wcs_header(f) ==
  IF f.ctype[1] # "RA---TAN" \/ f.ctype[2] # "DEC--TAN" THEN BAD_KEYCHAR
  ELSE IF f.keys \cap {"DISTORT", "REVERSE", "LONGPOLE", "PVF1"} # {}
  THEN WCS_ERROR
  ELSE IF f.cd[1][1] * f.cd[2][2] - f.cd[1][2] * f.cd[2][1] = 0
  THEN WCS_ERROR
  ELSE 0

\* one pass of the inner loop of main(): subsample file sub of group grp
legacy_mask_file ==
  /\ pc = "mask"
  /\ grp < count_brick(data.id)
  /\ LET n0 == ubi(data.id, grp)
         n1 == ubi(data.id, grp + 1)
         b  == data.id[n0 + 1] + 1
         f  == SubFileOf(brick[b], files[b][sub + 1])
         nsub == IF sub + 1 < NUMSUB THEN sub + 1 ELSE 0
         ngrp == IF sub + 1 < NUMSUB THEN grp ELSE grp + 1
     IN
     IF ~f.exists
     THEN /\ sub' = nsub /\ grp' = ngrp
          /\ UNCHANGED <<pc, data, mk, masktype, err>>
     ELSE IF read_wcs_header(f) # 0
     THEN /\ Exit(read_wcs_header(f))
          /\ UNCHANGED <<data, mk, grp, sub, masktype>>
     ELSE
       \E o \in read_brick_mask(f, mk) :
         IF o.st = "crash"
         THEN /\ pc' = "crash"
              /\ UNCHANGED <<data, mk, grp, sub, masktype, err>>
         ELSE IF o.st = "err"
         THEN /\ Exit(ERR_FILE)
              /\ UNCHANGED <<data, mk, grp, sub, masktype>>
         ELSE
           LET a == legacy_assign(f, o.m, data, n0 + 1, n1, sub) IN
           IF a.st = "err"
           THEN /\ Exit(KEY_OUT_BOUNDS)
                /\ UNCHANGED <<data, mk, grp, sub, masktype>>
           ELSE /\ data' = a.d
                /\ mk' = o.m
                /\ masktype' = IF masktype < o.m.dtype THEN o.m.dtype ELSE masktype
                /\ sub' = nsub /\ grp' = ngrp
                /\ UNCHANGED <<pc, err>>
  /\ UNCHANGED <<brick, build, conf, files, cat, imin, opened, out>>
  /\ UNCHANGED <<fvars, wvars, xvars>>

\* write_ascii: the structures in the order they have in the array
write_ascii ==
  /\ pc = "mask"
  /\ ~(grp < count_brick(data.id))
  /\ conf.fmt = "ASCII"
  /\ out' = [i \in 1 .. data.n |->
               [row |-> data.row[i], ra |-> data.ra[i], dec |-> data.dec[i],
                mask |-> data.mask[i], flag |-> data.flag[i]]]
  /\ pc' = "done"
  /\ err' = 0
  /\ UNCHANGED <<brick, build, conf, files, cat, data, mk, imin, opened>>
  /\ UNCHANGED <<fvars, lvars, wvars, xvars>>

\* the column write_fits hands to fits_write_col as num values of type
\* TBYTE: the first num bytes of the array of codes
byte_column(col, dt) ==
  [i \in 1 .. Len(col) |->
     byte_at(col, i - 1, IF dt = TBYTE THEN 1 ELSE 2)]

\* write_fits: the codes are cast to the longest data type met and stored
\* at the original index of their object
write_fits ==
  /\ pc = "mask"
  /\ ~(grp < count_brick(data.id))
  /\ conf.fmt = "FITS"
  /\ IF masktype \notin { TBYTE, TSHORT, TINT, TLONG }
     THEN /\ Exit(ERR_INPUT)
          /\ UNCHANGED out
     ELSE LET mskcol == reorder_mask_reduce(data.mask, masktype, data.idx, 1,
                                            Fresh(data.n))
              subcol == reorder_mask_reduce(data.flag, TBYTE, data.idx, 1,
                                            Fresh(data.n))
              written == byte_column(mskcol, masktype)
          IN /\ out' = [i \in 1 .. data.n |->
                          [row |-> i, ra |-> cat[i][1], dec |-> cat[i][2],
                           mask |-> written[i], flag |-> subcol[i]]]
             /\ pc' = "done"
             /\ err' = 0
  /\ UNCHANGED <<brick, build, conf, files, cat, data, mk, imin, opened>>
  /\ UNCHANGED <<fvars, lvars, wvars, xvars>>

NextLegacy ==
  \/ legacy_read_list
  \/ legacy_read_data
  \/ legacy_find_brick
  \/ legacy_mask_file
  \/ write_ascii
  \/ write_fits

SpecLegacy == InitLegacy /\ [][NextLegacy]_vars

(***************************************************************************)
(* SpecBit: one maskbits image is applied to one object, by assign_bitcode *)
(* in both builds (with and without -DEBOSS) and by the loop of the first  *)
(* program, in which XYBUG is 4.                                           *)
(***************************************************************************)
\* the pixel values of the image and the code the object has already
PixValues == { 0, 1, 4, 5 }
StartCodes == { 0, 8 }
\* the bit code for objects outside the bricks and the ID of the mask source
\* (in the first program the number of the subsample, counted from 1)
NullCodes == { 1, 4 }
SourceIds == { 1, 2 }

InitBit ==
  /\ Blank
  /\ build \in [eboss : BOOLEAN]

\* an image over brick A, an object of that brick and the code it has
bit_input ==
  /\ pc = "start"
  /\ \E pix \in [1 .. 4 -> PixValues], pt \in { <<0, 0>>, <<1, 1>> },
        c \in StartCodes, null \in NullCodes, sid \in SourceIds :
       /\ conf' = [NoConf EXCEPT !.mnull = null]
       /\ sub' = sid
       /\ brick' = << BrickA("S") >>
       /\ files' = << Image(BrickA("S"), BYTE_IMG, pix) >>
       /\ cat' = << pt >>
       /\ data' = [n |-> 1, ra |-> << pt[1] >>, dec |-> << pt[2] >>,
                   id |-> << 0 >>, idx |-> << 0 >>, row |-> << 1 >>,
                   mask |-> << c >>, flag |-> << 0 >>, subid |-> << 0 >>]
  /\ pc' = "pixels"
  /\ UNCHANGED <<build, mk, imin, opened, out, err>>
  /\ UNCHANGED <<fvars, grp, masktype, wvars, xvars>>

\* assign_bitcode for the object
bit_assign ==
  /\ pc = "pixels"
  /\ LET a == assign_bitcode(files[1], data.ra, data.dec, data.mask, 1, 1,
                             build.eboss)
         t == assign_bitcode_subid(files[1], data.ra, data.dec, data.subid, 1,
                                   1, build.eboss, conf.mnull, sub)
     IN /\ data' = [data EXCEPT !.mask = a.code, !.subid = t]
        /\ IF a.st = "ok"
           THEN pc' = "coded" /\ UNCHANGED err
           ELSE Exit(BRICKMASK_ERR_MASK)
  /\ UNCHANGED <<brick, build, conf, files, cat, mk, imin, opened, out>>
  /\ UNCHANGED <<fvars, lvars, wvars, xvars>>

\* the loop of main() of the first program for the object
bit_assign_legacy ==
  /\ pc = "pixels"
  /\ build.eboss
  /\ LET m == [dtype |-> TBYTE, d1 |-> files[1].dim[1],
               d2 |-> files[1].dim[2], bytes |-> 4]
         a == legacy_assign(files[1], m, data, 1, 1, sub - 1)
     IN /\ data' = a.d
        /\ IF a.st = "ok"
           THEN pc' = "coded" /\ UNCHANGED err
           ELSE Exit(KEY_OUT_BOUNDS)
  /\ UNCHANGED <<brick, build, conf, files, cat, mk, imin, opened, out>>
  /\ UNCHANGED <<fvars, lvars, wvars, xvars>>

NextBit == bit_input \/ bit_assign \/ bit_assign_legacy

SpecBit == InitBit /\ [][NextBit]_vars

(***************************************************************************)
(* SpecSplit: mpi_scatter_data divides the sorted objects of the root      *)
(* among the MPI tasks, in the program of the subsample lists and in the   *)
(* "desi" program                                                          *)
(***************************************************************************)
MaxTask == 4           \* MPI tasks
MaxIds == 5            \* objects of a sorted array of brick ids

\* the arrays of brick ids sort_data leaves: n >= 1 ids that ascend
SortedIds ==
  { s \in UNION { [1 .. n -> 0 .. MaxBrick] : n \in 1 .. MaxIds } :
      \A i \in 1 .. Len(s) - 1 : s[i] <= s[i + 1] }

\* a value no element of an array has been given yet
UNSET == 0 - 1

\* a division into segments of n / size objects, whatever their bricks
scatter_even(id, nbrick, sz) ==
  LET n == Len(id)
      at(w) == IF w = sz THEN n ELSE w * (n \div sz)
  IN [st |-> "ok",
      disp |-> [k \in 1 .. sz + 1 |-> at(k - 1)],
      nsend |-> [k \in 1 .. sz |-> at(k) - at(k - 1)]]

\* the loop of mpi_scatter_data over the objects i (0-based) of the root;
\* s holds prev, cnt, goal, wid and disp
RECURSIVE scatter_loop(_, _, _, _, _)
scatter_loop(id, nbrick, sz, i, s) ==
  LET pnum == nbrick \div sz
      rem  == nbrick % sz
  IN
  IF i >= Len(id) THEN [st |-> "ok", wid |-> s.wid, disp |-> s.disp]
  ELSE IF id[i + 1] = s.prev THEN scatter_loop(id, nbrick, sz, i + 1, s)
  ELSE IF s.cnt + 1 # s.goal
  THEN scatter_loop(id, nbrick, sz, i + 1,
                    [s EXCEPT !.prev = id[i + 1], !.cnt = @ + 1])
  ELSE IF s.wid = sz
  THEN [st |-> "abort", wid |-> s.wid, disp |-> s.disp]
  ELSE
    LET w == s.wid + 1 IN
    scatter_loop(id, nbrick, sz, i + 1,
      [prev |-> id[i + 1], cnt |-> s.cnt + 1, wid |-> w,
       disp |-> [s.disp EXCEPT ![w + 1] = i],
       goal |-> IF w < rem THEN (pnum + 1) * (w + 1)
                ELSE pnum * (w + 1) + rem])

\* mpi_scatter_data of the "desi" program, on the root: disp[w + 1] is the
\* first object (0-based) of task w, disp[sz + 1] the number of objects
mpi_scatter_data(id, nbrick, sz) ==
  LET pnum == nbrick \div sz
      rem  == nbrick % sz
      o == scatter_loop(id, nbrick, sz, 1,
             [prev |-> id[1], cnt |-> 0, wid |-> 0,
              goal |-> IF 0 < rem THEN pnum + 1 ELSE pnum,
              disp |-> [k \in 1 .. sz + 1 |-> IF k = 1 THEN 0 ELSE UNSET]])
      d == [k \in 1 .. sz + 1 |-> IF k > o.wid + 1 THEN Len(id) ELSE o.disp[k]]
  IN [st |-> o.st, disp |-> d,
      nsend |-> [k \in 1 .. sz |-> d[k + 1] - d[k]]]

\* the first loop of mpi_scatter_data of the program of the subsample
\* lists: the first object of the brick number num0, or 0
RECURSIVE scatter_root(_, _, _, _, _)
scatter_root(id, num0, i, prev, cnt) ==
  IF i >= Len(id) THEN [i_prev |-> 0, prev |-> prev, cnt |-> cnt]
  ELSE IF id[i + 1] = prev THEN scatter_root(id, num0, i + 1, prev, cnt)
  ELSE IF cnt + 1 = num0
  THEN [i_prev |-> i, prev |-> id[i + 1], cnt |-> cnt + 1]
  ELSE scatter_root(id, num0, i + 1, id[i + 1], cnt + 1)

\* its second loop; s holds prev, cnt, wid, i_prev, nsend and disp
RECURSIVE scatter_rest(_, _, _, _, _, _)
scatter_rest(id, num0, num, sz, i, s) ==
  IF i >= Len(id) THEN [s EXCEPT !.st = "ok"]
  ELSE IF id[i + 1] = s.prev
  THEN scatter_rest(id, num0, num, sz, i + 1, s)
  ELSE IF s.cnt + 1 # num0 + num * s.wid
  THEN scatter_rest(id, num0, num, sz, i + 1,
                    [s EXCEPT !.prev = id[i + 1], !.cnt = @ + 1])
  ELSE IF s.wid >= sz
  THEN [s EXCEPT !.st = "crash"]
  ELSE
    LET w == s.wid IN
    scatter_rest(id, num0, num, sz, i + 1,
      [s EXCEPT !.prev = id[i + 1], !.cnt = @ + 1, !.wid = w + 1,
                !.i_prev = i,
                !.nsend = [@ EXCEPT ![w + 1] = i - s.i_prev],
                !.disp = [@ EXCEPT ![w + 1] = s.disp[w] + s.nsend[w]]])

\* mpi_scatter_data of the program of the subsample lists, on the root:
\* nsend and disp are zeroed by calloc
mpi_scatter_list(id, nbrick, sz) ==
  LET num  == nbrick \div sz
      num0 == nbrick - num * (sz - 1)
      r    == scatter_root(id, num0, 0, 0 - 1, 0 - 1)
      ip   == IF r.i_prev = 0 THEN Len(id) ELSE r.i_prev
      o    == scatter_rest(id, num0, num, sz, ip,
                [st |-> "ok", prev |-> r.prev, cnt |-> r.cnt, wid |-> 1,
                 i_prev |-> ip,
                 nsend |-> [k \in 1 .. sz |-> IF k = 1 THEN ip ELSE 0],
                 disp |-> [k \in 1 .. sz |-> 0]])
  IN IF o.st # "ok" THEN [st |-> o.st, disp |-> o.disp, nsend |-> o.nsend]
     ELSE IF o.wid # sz
     THEN [st |-> "ok",
           nsend |-> [o.nsend EXCEPT ![o.wid + 1] = Len(id) - o.i_prev],
           disp |-> [o.disp EXCEPT
                       ![o.wid + 1] = o.disp[o.wid] + o.nsend[o.wid]]]
     ELSE [st |-> "ok", disp |-> o.disp, nsend |-> o.nsend]

\* an equal share of the bricks for every task, the remainder dropped
nbrick_floor(nbrick, sz, r) == nbrick \div sz

\* d->nbrick of task r (0-based) at the end of mpi_scatter_data of the
\* "desi" program, from the nbrick the root has broadcast
task_nbrick(nbrick, sz, r) ==
  LET pnum == nbrick \div sz
      rem  == nbrick % sz
  IN IF r < rem THEN pnum + 1 ELSE pnum

\* d->nbrick of task r at the end of mpi_scatter_data of the program of the
\* subsample lists
task_nbrick_list(nbrick, sz, r) ==
  LET num == nbrick \div sz
  IN IF r = 0 THEN nbrick - num * (sz - 1) ELSE num

\* what the tasks hold after mpi_scatter_data: nsend and disp as broadcast,
\* and nb[r], the d->nbrick of task r
with_nbrick(o, nb) ==
  [st |-> o.st, disp |-> o.disp, nsend |-> o.nsend, nbrick |-> nb]

InitSplit ==
  /\ Blank
  /\ build \in [eboss : { FALSE }]

\* sort_data on the root: the ids of the n >= 1 objects ascend and nbrick
\* counts the bricks that hold objects
split_sorted ==
  /\ pc = "start"
  /\ \E id \in SortedIds :
       data' = [n |-> Len(id), id |-> id, nbrick |-> count_brick(id)]
  /\ pc' = "sorted"
  /\ UNCHANGED <<brick, build, conf, files, cat, mk, imin, opened, out, err>>
  /\ UNCHANGED <<fvars, lvars, wvars, xvars>>

SplitUnchanged ==
  /\ UNCHANGED <<brick, build, conf, files, cat, data, mk, imin, opened, out,
                 err>>
  /\ UNCHANGED <<xvars, fvars, lvars, task, thr, taken, wrote>>

\* the root of the "desi" program divides its objects among sz tasks
split_desi ==
  /\ pc = "sorted"
  /\ \E sz \in 1 .. MaxTask :
       /\ size' = sz
       /\ scatter' = with_nbrick(mpi_scatter_data(data.id, data.nbrick, sz),
                                 [r \in 0 .. sz - 1 |->
                                    task_nbrick(data.nbrick, sz, r)])
  /\ pc' = "split"
  /\ SplitUnchanged

\* the root of the program of the subsample lists does
split_list ==
  /\ pc = "sorted"
  /\ \E sz \in 1 .. MaxTask :
       /\ size' = sz
       /\ scatter' = with_nbrick(mpi_scatter_list(data.id, data.nbrick, sz),
                                 [r \in 0 .. sz - 1 |->
                                    task_nbrick_list(data.nbrick, sz, r)])
  /\ pc' = "split"
  /\ SplitUnchanged

NextSplit == split_sorted \/ split_desi \/ split_list

SpecSplit == InitSplit /\ [][NextSplit]_vars

(***************************************************************************)
(* SpecMpi: main() of the "desi" program built with MPI.  The root reads   *)
(* and sorts the catalogue, mpi_init_worker sends every task its segment,  *)
(* every task runs assign_mask on its own objects and mpi_gather_data      *)
(* brings the codes back to the root.                                      *)
(***************************************************************************)
\* four bricks side by side, [k, k+1) x [0,2)
Strip(k) ==
  [ra1 |-> k, ra2 |-> k + 1, dec1 |-> 0, dec2 |-> 2, photsys |-> "S"]
MpiBricks == << Strip(0), Strip(1), Strip(2), Strip(3) >>

\* the files of the four bricks
MpiFiles ==
  { << [mask |-> "M8", nexp |-> "none"], [mask |-> "M16", nexp |-> "none"],
       [mask |-> "M8", nexp |-> "N8"], [mask |-> "none", nexp |-> "none"] >>,
    << [mask |-> "M16", nexp |-> "none"], [mask |-> "none", nexp |-> "none"],
       [mask |-> "M8", nexp |-> "none"], [mask |-> "M8", nexp |-> "none"] >> }

\* the coordinates of the objects, one place in every brick
MpiPoints == { <<0, 0>>, <<1, 1>>, <<2, 1>>, <<3, 0>> }
MpiCatalogs == UNION { [1 .. n -> MpiPoints] : n \in 1 .. MaxObj }

InitMpi ==
  /\ Blank
  /\ build = [eboss |-> FALSE]

\* the root: load_conf, get_brick, read_data and sort_data
mpi_root_main ==
  /\ pc = "start"
  /\ \E cf \in { x \in Confs : x.fmt = "ASCII" }, fs \in MpiFiles,
        c \in MpiCatalogs :
       /\ conf' = cf
       /\ brick' = MpiBricks
       /\ files' = fs
       /\ cat' = c
       /\ LET d == new_data(c, cf) IN
          \E o \in get_brick_id(MpiBricks, d.ra, d.dec, d.id, 1) :
            IF o.st # "ok"
            THEN /\ Exit(BRICKMASK_ERR_BRICK)
                 /\ data' = d
            ELSE \E f \in tim_sort(o.id) :
                   /\ data' = [d EXCEPT
                         !.id = [i \in 1 .. d.n |-> o.id[f[i]]],
                         !.ra = [i \in 1 .. d.n |-> o.ra[f[i]]],
                         !.dec = [i \in 1 .. d.n |-> o.dec[f[i]]],
                         !.idx = [i \in 1 .. d.n |-> d.idx[f[i]]],
                         !.nbrick = count_brick(
                                      [i \in 1 .. d.n |-> o.id[f[i]]])]
                   /\ pc' = "sorted"
                   /\ UNCHANGED err
  /\ UNCHANGED <<build, mk, imin, opened, out>>
  /\ UNCHANGED <<fvars, lvars, wvars, xvars>>

\* MPI_Scatterv: the count elements of the send buffer from displacement d
scatterv(buf, d, count) == SubSeq(buf, d + 1, d + count)

\* the DATA of a worker after mpi_scatter_data: the structure is zeroed by
\* calloc, as are the arrays of codes
worker_data(d, nsend, dsp, nbrick) ==
  [n |-> nsend,
   ra |-> scatterv(d.ra, dsp, nsend),
   dec |-> scatterv(d.dec, dsp, nsend),
   id |-> scatterv(d.id, dsp, nsend),
   idx |-> << >>,
   mask |-> [i \in 1 .. nsend |-> 0],
   nexp |-> [k \in 1 .. 3 |-> [i \in 1 .. nsend |-> 0]],
   mtype |-> 0,
   etype |-> <<0, 0, 0>>,
   nbrick |-> nbrick]

\* mpi_init_worker: the bricks are broadcast and the objects scattered; the
\* root keeps its arrays and lowers n to the length of its segment
mpi_init_worker ==
  /\ pc = "sorted"
  /\ \E sz \in 1 .. MaxTask :
       LET s == mpi_scatter_data(data.id, data.nbrick, sz)
           share(r) == IF r < data.nbrick % sz THEN data.nbrick \div sz + 1
                       ELSE data.nbrick \div sz
       IN IF s.st # "ok"
          THEN /\ Exit(BRICKMASK_ERR_UNKNOWN)
               /\ UNCHANGED <<data, size, scatter, task>>
          ELSE /\ size' = sz
               /\ scatter' = s
               /\ task' = [r \in 0 .. sz - 1 |->
                             [st |-> "ready",
                              d |-> IF r = 0 THEN NoData
                                    ELSE worker_data(data, s.nsend[r + 1],
                                                     s.disp[r + 1], share(r))]]
               /\ data' = [data EXCEPT !.n = s.nsend[1], !.nbrick = share(0)]
               /\ pc' = "scattered"
               /\ UNCHANGED err
  /\ UNCHANGED <<brick, build, conf, files, cat, mk, imin, opened, out>>
  /\ UNCHANGED <<xvars, fvars, lvars, thr, taken, wrote>>

\* the first d.n objects of the arrays of d
local_data(d) ==
  [d EXCEPT !.ra = SubSeq(@, 1, d.n), !.dec = SubSeq(@, 1, d.n),
            !.id = SubSeq(@, 1, d.n), !.mask = SubSeq(@, 1, d.n),
            !.nexp = [k \in 1 .. 3 |-> SubSeq(@[k], 1, d.n)]]

\* the while loop of assign_mask from the object i0 on and the update of
\* the data types that follows it: the outcomes [st, d]
RECURSIVE assign_mask_loop(_, _, _)
assign_mask_loop(d, m, i0) ==
  IF ~(i0 < d.n)
  THEN { [st |-> "ok",
          d |-> [d EXCEPT
                   !.mtype = IF @ < m.dtype THEN m.dtype ELSE @,
                   !.etype = [k \in 1 .. 3 |->
                                IF @[k] < m.etype[k] THEN m.etype[k]
                                ELSE @[k]]]] }
  ELSE
    LET imax == group_end(d.id, i0, i0 + 1)
        bid  == d.id[i0 + 1]
    IN
    IF bid >= Len(brick) THEN { [st |-> "crash", d |-> d] }
    ELSE
      LET skip == brick[bid + 1].photsys \notin { "N", "S" }
          d0 == IF skip
                THEN [d EXCEPT
                        !.mask = photsys_null(@, i0, imax, conf.mnull),
                        !.nexp = [k \in 1 .. 3 |->
                                    photsys_null(@[k], i0, imax, conf.enull)]]
                ELSE d
          j0 == IF skip THEN imax ELSE i0
      IN UNION { IF o.st # "ok" THEN { [st |-> o.st, d |-> d] }
                 ELSE assign_mask_loop(o.d, o.m, imax)
                 : o \in assign_files(brick_files(bid), 1, m, d0, {}, j0,
                                      imax) }

\* assign_mask on the DATA of one task: nothing is done for no object
assign_mask_task(d) ==
  IF Len(brick) = 0 \/ d.n = 0 THEN { [st |-> "ok", d |-> d] }
  ELSE assign_mask_loop(d, mask_init, 0)

\* the codes of the first objects of the root replaced by those of v
root_data(d, v) ==
  [d EXCEPT
     !.mask = [i \in 1 .. Len(@) |-> IF i <= v.n THEN v.mask[i] ELSE @[i]],
     !.nexp = [k \in 1 .. 3 |->
                 [i \in 1 .. Len(@[k]) |->
                    IF i <= v.n THEN v.nexp[k][i] ELSE @[k][i]]],
     !.mtype = v.mtype,
     !.etype = v.etype]

\* assign_mask on the task of rank r
mpi_assign_mask ==
  /\ pc = "scattered"
  /\ \E r \in 0 .. size - 1 :
       /\ task[r].st = "ready"
       /\ \E o \in assign_mask_task(IF r = 0 THEN local_data(data)
                                    ELSE task[r].d) :
            IF o.st = "crash"
            THEN /\ pc' = "crash"
                 /\ UNCHANGED <<data, task, err>>
            ELSE IF o.st = "err"
            THEN /\ Exit(BRICKMASK_ERR_MASK)
                 /\ UNCHANGED <<data, task>>
            ELSE /\ task' = [task EXCEPT ![r].st = "done",
                                         ![r].d = IF r = 0 THEN @ ELSE o.d]
                 /\ data' = IF r = 0 THEN root_data(data, o.d) ELSE data
                 /\ UNCHANGED <<pc, err>>
  /\ UNCHANGED <<brick, build, conf, files, cat, mk, imin, opened, out>>
  /\ UNCHANGED <<xvars, fvars, lvars, size, scatter, thr, taken, wrote>>

\* a gather that stores every segment at the start of the receive buffer
gatherv_at_start(recv, send, nrecv, dsp) ==
  [i \in 1 .. Len(recv) |->
     IF \E r \in 2 .. Len(nrecv) : i <= nrecv[r]
     THEN LET r == CHOOSE x \in 2 .. Len(nrecv) : i <= nrecv[x]
          IN send[r][i]
     ELSE recv[i]]

\* MPI_Gatherv with MPI_IN_PLACE on the root: the nrecv[r] elements task r
\* sends are stored from the displacement dsp[r] of the receive buffer on;
\* the segment of the root stays as it is
gatherv(recv, send, nrecv, dsp) ==
  [i \in 1 .. Len(recv) |->
     IF \E r \in 2 .. Len(nrecv) : dsp[r] < i /\ i <= dsp[r] + nrecv[r]
     THEN LET r == CHOOSE x \in 2 .. Len(nrecv) :
                     dsp[x] < i /\ i <= dsp[x] + nrecv[x]
          IN send[r][i - dsp[r]]
     ELSE recv[i]]

\* MPI_Reduce with MPI_MAX
RECURSIVE reduce_max(_)
reduce_max(v) ==
  IF Len(v) = 1 THEN v[1]
  ELSE LET t == reduce_max(Tail(v)) IN IF v[1] < t THEN t ELSE v[1]

\* the sum of the first k elements
RECURSIVE sum_to(_, _)
sum_to(v, k) == IF k = 0 THEN 0 ELSE v[k] + sum_to(v, k - 1)

\* mpi_gather_data, after the barrier every task reaches when its
\* assign_mask is over
mpi_gather_data ==
  /\ pc = "scattered"
  /\ \A r \in 0 .. size - 1 : task[r].st = "done"
  /\ LET all(r) == IF r = 0 THEN data ELSE task[r].d
         nrecv == [k \in 1 .. size |-> all(k - 1).n]
         dsp   == [k \in 1 .. size |-> sum_to(nrecv, k - 1)]
         skip  == \A k \in 2 .. size : nrecv[k] = 0
     IN IF skip
        THEN UNCHANGED data
        ELSE data' = [data EXCEPT
               !.ra = gatherv(@, [k \in 1 .. size |-> all(k - 1).ra],
                              nrecv, dsp),
               !.dec = gatherv(@, [k \in 1 .. size |-> all(k - 1).dec],
                               nrecv, dsp),
               !.mask = gatherv(@, [k \in 1 .. size |-> all(k - 1).mask],
                                nrecv, dsp),
               !.nexp = [j \in 1 .. 3 |->
                           gatherv(@[j],
                                   [k \in 1 .. size |-> all(k - 1).nexp[j]],
                                   nrecv, dsp)],
               !.n = sum_to(nrecv, size),
               !.mtype = reduce_max([k \in 1 .. size |-> all(k - 1).mtype]),
               !.etype = [j \in 1 .. 3 |->
                            reduce_max([k \in 1 .. size |->
                                          all(k - 1).etype[j]])]]
  /\ task' = [r \in 0 .. size - 1 |-> [st |-> "freed", d |-> NoData]]
  /\ pc' = "assigned"
  /\ UNCHANGED <<brick, build, conf, files, cat, mk, imin, opened, out, err>>
  /\ UNCHANGED <<xvars, fvars, lvars, size, scatter, thr, taken, wrote>>

NextMpi ==
  \/ mpi_root_main
  \/ mpi_init_worker
  \/ mpi_assign_mask
  \/ mpi_gather_data
  \/ reorder_data
  \/ main_save_data

SpecMpi == InitMpi /\ [][NextMpi]_vars

(***************************************************************************)
(* SpecOmp: main() of the first program (src/brickmask.c) built with OMP:  *)
(* the loop over the groups of objects runs in a parallel region.  data,   *)
(* ubi and dtype are shared by the threads; m, i and maskbit are private.  *)
(***************************************************************************)
MaxThread == 2         \* threads of the parallel region

\* the subsample files of the two bricks
OmpFiles ==
  { << << "E16", "none", "none", "E3" >>, << "E1", "E2", "none", "none" >> >>,
    << << "E1", "none", "none", "none" >>, << "E16", "none", "none", "none" >> >>,
    << << "none", "E3", "none", "E2" >>, << "none", "none", "none", "none" >> >> }

\* the coordinates of the objects, one place in either brick
OmpPoints == { <<1, 1>>, <<3, 1>> }
OmpCatalogs == UNION { [1 .. n -> OmpPoints] : n \in 1 .. MaxObj }

InitOmp ==
  /\ Blank
  /\ build = [eboss |-> TRUE]

\* a thread before `omp for` hands it an iteration
Idle == [st |-> "idle", m |-> 0, i |-> 0,
         mk |-> [dtype |-> 0, d1 |-> 0, d2 |-> 0, bytes |-> 0], pend |-> 0]

\* main() up to the parallel region: the lists are read, the bricks found,
\* the objects sorted by brick, and the team of threads starts
omp_parallel ==
  /\ pc = "start"
  /\ \E fs \in OmpFiles, fmt \in { "ASCII", "FITS" }, c \in OmpCatalogs,
        nt \in 1 .. MaxThread :
       LET n  == Len(c)
           ra == [i \in 1 .. n |-> legacy_ra(c[i][1])]
           dec == [i \in 1 .. n |-> c[i][2]]
           b  == << BrickA("S"), BrickB("S") >>
           id == [i \in 1 .. n |-> find_brick_long(b, ra[i], dec[i])]
       IN /\ brick' = b
          /\ files' = fs
          /\ conf' = [NoConf EXCEPT !.fmt = fmt]
          /\ cat' = c
          /\ \E f \in tim_sort(id) :
               data' = [n |-> n,
                        ra |-> [i \in 1 .. n |-> ra[f[i]]],
                        dec |-> [i \in 1 .. n |-> dec[f[i]]],
                        id |-> [i \in 1 .. n |-> id[f[i]]],
                        idx |-> [i \in 1 .. n |->
                                   IF fmt = "FITS" THEN f[i] - 1 ELSE 0],
                        row |-> [i \in 1 .. n |-> f[i]],
                        mask |-> [i \in 1 .. n |-> 0],
                        flag |-> [i \in 1 .. n |-> 0]]
          /\ size' = nt
          /\ thr' = [t \in 1 .. nt |-> Idle]
          /\ wrote' = [i \in 1 .. n |-> {}]
  /\ taken' = {}
  /\ mk' = Idle.mk
  /\ pc' = "parallel"
  /\ UNCHANGED <<build, imin, opened, out, err>>
  /\ UNCHANGED <<xvars, fvars, lvars, scatter, task>>

\* a loop that gives every iteration to every thread that asks
every_iteration(tk, cnt) == 0 .. cnt - 1

\* `omp for`: the iterations m that may still be handed to a thread; tk are
\* the iterations handed out, cnt the number of groups
omp_for(tk, cnt) == { m \in 0 .. cnt - 1 : m \notin tk }

\* thread t is handed an iteration of the loop over m
omp_next ==
  /\ pc = "parallel"
  /\ \E t \in 1 .. size :
       /\ thr[t].st = "idle"
       /\ \E m \in omp_for(taken, count_brick(data.id)) :
            /\ thr' = [thr EXCEPT ![t].st = "run", ![t].m = m, ![t].i = 0]
            /\ taken' = taken \cup { m }
  /\ UNCHANGED <<pc, brick, build, conf, files, cat, data, mk, imin, opened,
                 out, err>>
  /\ UNCHANGED <<xvars, fvars, lvars, size, scatter, task, wrote>>

\* thread t after subsample file i of its group
omp_advance(s) ==
  IF s.i + 1 < NUMSUB THEN [s EXCEPT !.st = "run", !.i = @ + 1]
  ELSE [s EXCEPT !.st = "idle"]

\* the loop of thread t over the objects of its group, for the file f
omp_objects(t, f) ==
  LET n0 == ubi(data.id, thr[t].m)
      n1 == ubi(data.id, thr[t].m + 1)
      a  == legacy_assign(f, thr'[t].mk, data, n0 + 1, n1, thr[t].i)
  IN IF a.st = "err"
     THEN /\ Exit(KEY_OUT_BOUNDS)
          /\ UNCHANGED <<data, wrote>>
     ELSE /\ data' = a.d
          /\ wrote' = [k \in 1 .. data.n |->
                         IF n0 < k /\ k <= n1 THEN wrote[k] \cup { t }
                         ELSE wrote[k]]
          /\ UNCHANGED <<pc, err>>

\* the file of thread t
omp_file_of(t) ==
  LET b == data.id[ubi(data.id, thr[t].m) + 1] + 1
  IN SubFileOf(brick[b], files[b][thr[t].i + 1])

\* thread t reads subsample file i of its group and compares the shared
\* dtype with the data type of the file; when dtype is not smaller it goes
\* on to the objects
omp_file ==
  /\ pc = "parallel"
  /\ \E t \in 1 .. size :
       /\ thr[t].st = "run"
       /\ LET f == omp_file_of(t) IN
          IF ~f.exists
          THEN /\ thr' = [thr EXCEPT ![t] = omp_advance(@)]
               /\ UNCHANGED <<pc, data, wrote, err>>
          ELSE
            \E o \in read_brick_mask(f, thr[t].mk) :
              IF o.st = "crash"
              THEN /\ pc' = "crash"
                   /\ UNCHANGED <<thr, data, wrote, err>>
              ELSE IF o.st = "err"
              THEN /\ Exit(ERR_FILE)
                   /\ UNCHANGED <<thr, data, wrote>>
              ELSE IF masktype < o.m.dtype
              THEN /\ thr' = [thr EXCEPT ![t].st = "store", ![t].mk = o.m,
                                         ![t].pend = o.m.dtype]
                   /\ UNCHANGED <<pc, data, wrote, err>>
              ELSE /\ thr' = [thr EXCEPT
                                ![t] = omp_advance([@ EXCEPT !.mk = o.m])]
                   /\ omp_objects(t, f)
  /\ UNCHANGED <<brick, build, conf, files, cat, mk, imin, opened, out>>
  /\ UNCHANGED <<xvars, fvars, lvars, size, scatter, task, taken>>

\* thread t stores the data type of its file in the shared dtype and goes
\* on to the objects
omp_store ==
  /\ pc = "parallel"
  /\ \E t \in 1 .. size :
       /\ thr[t].st = "store"
       /\ masktype' = thr[t].pend
       /\ thr' = [thr EXCEPT ![t] = omp_advance(@)]
       /\ omp_objects(t, omp_file_of(t))
  /\ UNCHANGED <<brick, build, conf, files, cat, mk, imin, opened, out>>
  /\ UNCHANGED <<xvars, fvars, grp, sub, size, scatter, task, taken>>

\* the end of the parallel region: every iteration has been run
omp_end ==
  /\ pc = "parallel"
  /\ omp_for(taken, count_brick(data.id)) = {}
  /\ \A t \in 1 .. size : thr[t].st = "idle"
  /\ grp' = count_brick(data.id)
  /\ pc' = "mask"
  /\ UNCHANGED <<brick, build, conf, files, cat, data, mk, imin, opened, out,
                 err>>
  /\ UNCHANGED <<fvars, sub, masktype, wvars, xvars>>

NextOmp ==
  \/ omp_parallel
  \/ omp_next
  \/ omp_file
  \/ omp_store
  \/ omp_end
  \/ write_ascii
  \/ write_fits

SpecOmp == InitOmp /\ [][NextOmp]_vars

(***************************************************************************)
(* SpecSave: the writers of the ASCII catalogues on a device that may      *)
(* fail.  save_data writes one file per input catalogue with save_ascii;   *)
(* write_ascii of the first program writes one file.  Both collect the     *)
(* lines in a buffer and hand it to fwrite when it is full.                *)
(***************************************************************************)
MaxRows == 4           \* objects to be saved
ChunkRows == 2         \* lines the buffer of a writer holds

\* the codes to be saved
SaveCodes == { 1, 5 }

\* the number of fwrite calls that write r lines
chunks(r) == (r + ChunkRows - 1) \div ChunkRows

\* the first k lines of rows
lines(rows, k) == SubSeq(rows, 1, IF k < Len(rows) THEN k ELSE Len(rows))

\* save_ascii: the outcome [st, written] of writing the lines rows to a new
\* file.  fail = 0: fopen fails; 0 < fail <= chunks: that call of fwrite
\* fails; otherwise no call fails.  A failure in output_writeline makes
\* WRITE_LINE call output_destroy, which hands the buffer to fwrite once
\* more (retry tells whether that call writes it) and returns an error.
\* The last buffer is written by output_destroy, whose failure is a warning.
save_ascii(rows, fail, retry) ==
  LET c == chunks(Len(rows)) IN
  IF fail = 0 THEN [st |-> "err", written |-> << >>]
  ELSE IF fail > c THEN [st |-> "ok", written |-> rows]
  ELSE IF fail = c
  THEN [st |-> "ok", written |-> lines(rows, ChunkRows * (c - 1))]
  ELSE [st |-> "err",
        written |-> lines(rows, IF retry THEN ChunkRows * fail
                                ELSE ChunkRows * (fail - 1))]

\* write_ascii of the first program: every failure of fwrite is returned
legacy_write_ascii(rows, fail, retry) ==
  LET c == chunks(Len(rows)) IN
  IF fail = 0 THEN [st |-> "err", written |-> << >>]
  ELSE IF fail > c THEN [st |-> "ok", written |-> rows]
  ELSE [st |-> "err", written |-> lines(rows, ChunkRows * (fail - 1))]

InitSave ==
  /\ Blank
  /\ build = [eboss |-> FALSE]

\* the lines of the objects iidx[i] <= p < iidx[i + 1] of catalogue i
file_rows(d, i) ==
  [k \in 1 .. d.iidx[i + 2] - d.iidx[i + 1] |->
     [file |-> i, row |-> d.iidx[i + 1] + k, mask |-> d.mask[d.iidx[i + 1] + k]]]

\* a run up to the call of the writer: n objects read from ncat catalogues,
\* with their codes in the order of the input
save_ready ==
  /\ pc = "start"
  /\ \E n \in 1 .. MaxRows, ncat \in 1 .. 2 :
       \E code \in [1 .. n -> SaveCodes], s \in 0 .. n :
         /\ ncat = 1 => s = n
         /\ conf' = [mnull |-> 0, enull |-> 0, fmt |-> "ASCII", ncat |-> ncat]
         /\ cat' = [p \in 1 .. n |-> p]
         /\ data' = [n |-> n, mask |-> code,
                     iidx |-> IF ncat = 1 THEN << 0, n >> ELSE << 0, s, n >>]
  /\ imin' = 0
  /\ pc' = "save"
  /\ UNCHANGED <<brick, build, files, mk, opened, out, err>>
  /\ UNCHANGED <<fvars, lvars, wvars, xvars>>

\* one pass of the loop of save_data: catalogue imin
save_data_file ==
  /\ pc = "save"
  /\ imin < conf.ncat
  /\ \E fail \in 0 .. chunks(MaxRows) + 1, retry \in BOOLEAN :
       LET o == save_ascii(file_rows(data, imin), fail, retry) IN
       /\ out' = out \o o.written
       /\ IF o.st = "ok"
          THEN /\ imin' = imin + 1
               /\ UNCHANGED <<pc, err>>
          ELSE /\ Exit(BRICKMASK_ERR_SAVE)
               /\ UNCHANGED imin
  /\ UNCHANGED <<brick, build, conf, files, cat, data, mk, opened>>
  /\ UNCHANGED <<fvars, lvars, wvars, xvars>>

\* save_data after its loop
save_data_end ==
  /\ pc = "save"
  /\ ~(imin < conf.ncat)
  /\ pc' = "done"
  /\ err' = 0
  /\ UNCHANGED <<brick, build, conf, files, cat, data, mk, imin, opened, out>>
  /\ UNCHANGED <<fvars, lvars, wvars, xvars>>

\* the first program writes its one catalogue
save_legacy ==
  /\ pc = "save"
  /\ conf.ncat = 1 /\ imin = 0
  /\ \E fail \in 0 .. chunks(MaxRows) + 1 :
       LET o == legacy_write_ascii(file_rows(data, 0), fail, FALSE) IN
       /\ out' = o.written
       /\ IF o.st = "ok"
          THEN /\ pc' = "done"
               /\ err' = 0
          ELSE Exit(ERR_FILE)
  /\ UNCHANGED <<brick, build, conf, files, cat, data, mk, imin, opened>>
  /\ UNCHANGED <<fvars, lvars, wvars, xvars>>

NextSave ==
  \/ save_ready
  \/ save_data_file
  \/ save_data_end
  \/ save_legacy

SpecSave == InitSave /\ [][NextSave]_vars

(***************************************************************************)
(* SpecExit: main() of brickmask.c with the failures of its steps.  cause  *)
(* is the category of the failure the step met: "file" for a file that     *)
(* cannot be read or written, "memory" for a failed allocation.            *)
(***************************************************************************)
Causes == {"file", "memory"}

\* read_data returns NULL when read_ascii or read_fits fails and when the
\* allocation of the additional columns fails; main() exits with
\* BRICKMASK_ERR_FILE for both
read_data_fails ==
  /\ pc = "brick"
  /\ cause' \in Causes
  /\ Exit(BRICKMASK_ERR_FILE)
  /\ UNCHANGED <<brick, build, conf, files, cat, data, mk, imin, opened, out>>
  /\ UNCHANGED <<fvars, lvars, wvars>>

\* assign_mask returns BRICKMASK_ERR_MEMORY when mask_init fails; main()
\* tests the value against zero only and exits with BRICKMASK_ERR_MASK
assign_mask_fails ==
  /\ pc = "sorted"
  /\ cause' = "memory"
  /\ Exit(BRICKMASK_ERR_MASK)
  /\ UNCHANGED <<brick, build, conf, files, cat, data, mk, imin, opened, out>>
  /\ UNCHANGED <<fvars, lvars, wvars>>

\* save_data returns BRICKMASK_ERR_SAVE when save_ascii or save_fits fails;
\* main() exits with BRICKMASK_ERR_SAVE
save_data_fails ==
  /\ pc = "reordered"
  /\ cause' = "file"
  /\ Exit(BRICKMASK_ERR_SAVE)
  /\ UNCHANGED <<brick, build, conf, files, cat, data, mk, imin, opened, out>>
  /\ UNCHANGED <<fvars, lvars, wvars>>

NextExit ==
  \/ Next
  \/ read_data_fails
  \/ assign_mask_fails
  \/ save_data_fails

SpecExit == Init /\ [][NextExit]_vars

(***************************************************************************)
(* SpecWcs: the deprojection of the TAN scheme, world2pix of the "desi"    *)
(* program and wcs_world2pix of the first program.  The sines and cosines  *)
(* of the code are kept as exact fractions of TanScale: the object is the  *)
(* unit vector l = <<cos(ra)cos(dec), sin(ra)cos(dec), sin(dec)>>, with    *)
(* components among 0, 3/5, 4/5 and 1, and the reference point is on an    *)
(* axis, so that every square root the code takes is of a perfect square.  *)
(* The CD matrix is diagonal with TanPix pixels per radian of the tangent   *)
(* plane.                                                                  *)
(***************************************************************************)
TanScale == 5
TanPix == 2

TanParts == { 0, 3, 4, 5, -3, -4, -5 }

\* the unit vectors of the objects
TanDirs ==
  { l \in TanParts \X TanParts \X TanParts :
      l[1] * l[1] + l[2] * l[2] + l[3] * l[3] = TanScale * TanScale }

\* the reference points CRVAL: <<sin(ra), cos(ra), sin(dec), cos(dec)>>
TanRefs ==
  { <<0, 1, 0, 1>>, <<1, 0, 0, 1>>, <<0, -1, 0, 1>>, <<-1, 0, 0, 1>>,
    <<0, 1, 1, 0>>, <<0, 1, -1, 0>> }

\* sqrt() of a perfect square
Sqrt(n) == CHOOSE s \in 0 .. TanScale * TanScale : s * s = n

\* the pixel coordinate n / d as a fraction with d > 0
Frac(xn, yn, d) ==
  IF d > 0 THEN [fin |-> TRUE, xn |-> xn, yn |-> yn, d |-> d]
  ELSE [fin |-> TRUE, xn |-> 0 - xn, yn |-> 0 - yn, d |-> 0 - d]

\* read_wcs_header of the "desi" program: wcs->ang of the reference point
wcs_ang(c) ==
  << c[3], c[2] * c[4], c[1] * c[4], 0 - c[4], c[2] * c[3], c[1] * c[3],
     0 - c[1], c[2] >>

\* world2pix of the "desi" program, a void function.  theta is forced to 0
\* at and beyond the pole; at theta = 0 the code divides by zero and the
\* pixel is not finite.
world2pix_tan(c, crpix, l) ==
  LET ang   == wcs_ang(c)
      theta == l[3] * ang[1] + l[1] * ang[2] + l[2] * ang[3]
      phi1  == l[3] * ang[4] + l[1] * ang[5] + l[2] * ang[6]
      phi2  == l[1] * ang[7] + l[2] * ang[8]
  IN
  IF theta >= TanScale \/ theta <= 0 - TanScale
  THEN Frac(crpix[1] - 1, crpix[2] - 1, 1)
  ELSE IF theta = 0 THEN [fin |-> FALSE, xn |-> 0, yn |-> 0, d |-> 1]
  ELSE
    LET s  == Sqrt(TanScale * TanScale - theta * theta)
        sp == Sqrt(phi1 * phi1 + phi2 * phi2)
    IN IF phi1 = 0 /\ phi2 = 0
       THEN Frac(crpix[1] - 1, crpix[2] - 1, 1)
       ELSE Frac(TanPix * s * phi2 + (crpix[1] - 1) * theta * sp,
                 (0 - TanPix * s * phi1) + (crpix[2] - 1) * theta * sp,
                 theta * sp)

\* a conversion of the first program that never returns an error
wcs_world2pix_total(c, crpix, l) ==
  [err |-> 0, pix |-> world2pix_tan(c, crpix, l)]

\* read_wcs_header of the first program: the rotation matrix wcs->r
wcs_r(c) ==
  << << c[2] * c[3], c[1] * c[3], 0 - c[4] >>,
     << 0 - c[1], c[2], 0 >>,
     << c[2] * c[4], c[1] * c[4], c[3] >> >>

\* wcs_world2pix of the first program: b = r l, theta = asin(b[2]) and
\* phi = atan2(b[1], b[0]); WCS_ERROR when theta == 0.  At the pole
\* tan(theta) is the tangent of the double nearest to pi / 2, and the offset
\* from the reference pixel is below 1e-14 of a pixel: it is taken as 0.
wcs_world2pix(c, crpix, l) ==
  LET r  == wcs_r(c)
      b  == [j \in 1 .. 3 |->
               LET v == r[j][1] * l[1] + r[j][2] * l[2] + r[j][3] * l[3]
               IN IF v > TanScale THEN TanScale
                  ELSE IF v < 0 - TanScale THEN 0 - TanScale ELSE v]
  IN
  IF b[3] = 0 THEN [err |-> WCS_ERROR, pix |-> Frac(0, 0, 1)]
  ELSE IF b[1] = 0 /\ b[2] = 0
  THEN [err |-> 0, pix |-> Frac(crpix[1] - 1, crpix[2] - 1, 1)]
  ELSE
    LET s  == Sqrt(TanScale * TanScale - b[3] * b[3])
        sp == Sqrt(b[1] * b[1] + b[2] * b[2])
    IN [err |-> 0,
        pix |-> Frac(TanPix * s * b[2] + (crpix[1] - 1) * b[3] * sp,
                     (0 - TanPix * s * b[1]) + (crpix[2] - 1) * b[3] * sp,
                     b[3] * sp)]

InitWcs ==
  /\ Blank
  /\ build = [eboss |-> FALSE]

\* a mask file with its reference point and an object
wcs_input ==
  /\ pc = "start"
  /\ \E c \in TanRefs, l \in TanDirs, p \in { <<1, 1>>, <<2, 3>> } :
       q' = [crval |-> c, crpix |-> p, l |-> l]
  /\ pc' = "wcs"
  /\ UNCHANGED <<brick, res, pvars, lvars, wvars, xvars>>

\* assign_bitcode of the "desi" program calls world2pix
wcs_desi ==
  /\ pc = "wcs"
  /\ res' = [err |-> 0, pix |-> world2pix_tan(q.crval, q.crpix, q.l)]
  /\ pc' = "desi"
  /\ UNCHANGED <<brick, q, pvars, lvars, wvars, xvars>>

\* main() of the first program calls wcs_world2pix and exits on an error
wcs_legacy ==
  /\ pc = "wcs"
  /\ res' = wcs_world2pix(q.crval, q.crpix, q.l)
  /\ IF res'.err # 0
     THEN Exit(res'.err)
     ELSE pc' = "legacy" /\ UNCHANGED err
  /\ UNCHANGED <<brick, q, build, conf, files, cat, data, mk, imin, opened,
                 out>>
  /\ UNCHANGED <<lvars, wvars, xvars>>

NextWcs == wcs_input \/ wcs_desi \/ wcs_legacy

SpecWcs == InitWcs /\ [][NextWcs]_vars

(***************************************************************************)
(* SpecConf: check_output of load_conf.c, the policy for an output file    *)
(* that exists.  The standard input is a sequence of characters, "\n"      *)
(* ending a line; a read at its end returns EOF.                           *)
(***************************************************************************)
MaxInput == 3          \* characters on the standard input
MaxAsk == 2            \* the largest |OVERWRITE| of a negative OVERWRITE

InputChars == { "y", "n", "x", "\n" }

RECURSIVE Inputs(_)
Inputs(k) ==
  IF k = 0 THEN { << >> }
  ELSE LET P == Inputs(k - 1) IN
       P \cup { Append(s, c) : s \in { x \in P : Len(x) = k - 1 },
                               c \in InputChars }

\* while ((c = getchar()) != '\n' && c != EOF) continue;
RECURSIVE skip_line(_)
skip_line(in) ==
  IF in = << >> THEN in
  ELSE IF Head(in) = "\n" THEN Tail(in)
  ELSE skip_line(Tail(in))

\* a loop that asks once more than OVERWRITE allows
RECURSIVE ask_once_more(_, _, _, _, _)
ask_once_more(i, ovwrite, in, confirm, asked) ==
  IF i = ovwrite - 1 THEN [confirm |-> confirm, asked |-> asked, no |-> FALSE]
  ELSE IF in = << >>
  THEN ask_once_more(i - 1, ovwrite, in, confirm, asked + 1)
  ELSE IF Head(in) = "n"
  THEN [confirm |-> "n", asked |-> asked + 1, no |-> TRUE]
  ELSE IF Head(in) = "y"
  THEN [confirm |-> "y", asked |-> asked + 1, no |-> FALSE]
  ELSE ask_once_more(i - 1, ovwrite, skip_line(Tail(in)), Head(in), asked + 1)

\* the loop for (i = 0; i != ovwrite; i--) of check_output: the last answer
\* read, the number of prompts, and whether the answer 'n' ended the loop
RECURSIVE check_output_ask(_, _, _, _, _)
check_output_ask(i, ovwrite, in, confirm, asked) ==
  IF i = ovwrite THEN [confirm |-> confirm, asked |-> asked, no |-> FALSE]
  ELSE IF in = << >>
  THEN check_output_ask(i - 1, ovwrite, in, confirm, asked + 1)
  ELSE IF Head(in) = "n"
  THEN [confirm |-> "n", asked |-> asked + 1, no |-> TRUE]
  ELSE IF Head(in) = "y"
  THEN [confirm |-> "y", asked |-> asked + 1, no |-> FALSE]
  ELSE check_output_ask(i - 1, ovwrite, skip_line(Tail(in)), Head(in),
                        asked + 1)

\* check_output for a file name that is set: [ret, asked]
check_output(exists, writable, ovwrite, in) ==
  IF exists
  THEN
    IF ovwrite = 0 THEN [ret |-> BRICKMASK_ERR_FILE, asked |-> 0]
    ELSE
      LET a == IF ovwrite > 0
               THEN [confirm |-> "y", asked |-> 0, no |-> FALSE]
               ELSE check_output_ask(0, ovwrite, in, "", 0)
      IN IF a.no \/ a.confirm # "y"
         THEN [ret |-> BRICKMASK_ERR_FILE, asked |-> a.asked]
         ELSE IF ~writable
         THEN [ret |-> BRICKMASK_ERR_FILE, asked |-> a.asked]
         ELSE [ret |-> 0, asked |-> a.asked]
  ELSE [ret |-> 0, asked |-> 0]

InitConf ==
  /\ Blank
  /\ build = [eboss |-> FALSE]

\* the configuration, the state of the output file and the standard input
conf_input ==
  /\ pc = "start"
  /\ \E o \in (0 - MaxAsk) .. 1, e \in BOOLEAN, w \in BOOLEAN,
        in \in Inputs(MaxInput) :
       /\ conf' = [ovwrite |-> o]
       /\ q' = [exists |-> e, writable |-> w, stdin |-> in]
  /\ pc' = "conf"
  /\ UNCHANGED <<brick, res, build, files, cat, data, mk, imin, opened, out,
                 err>>
  /\ UNCHANGED <<lvars, wvars, xvars>>

\* conf_verify calls check_output; load_conf returns NULL on an error and
\* main() exits with BRICKMASK_ERR_CFG
conf_verify ==
  /\ pc = "conf"
  /\ res' = check_output(q.exists, q.writable, conf.ovwrite, q.stdin)
  /\ IF res'.ret # 0
     THEN Exit(BRICKMASK_ERR_CFG)
     ELSE pc' = "verified" /\ UNCHANGED err
  /\ UNCHANGED <<brick, q, build, conf, files, cat, data, mk, imin, opened,
                 out>>
  /\ UNCHANGED <<lvars, wvars, xvars>>

NextConf == conf_input \/ conf_verify

SpecConf == InitConf /\ [][NextConf]_vars

(***************************************************************************)
(* SpecBuf: a sequence of mask files read into the reused buffer, by       *)
(* read_mask of the "desi" program and by read_brick_mask of the first     *)
(* program, which main() follows with the look-up of a pixel.              *)
(***************************************************************************)
MaxReads == 3          \* files read into one buffer

\* images of three shapes and two widths of pixel
BufFiles ==
  { [Image([ra1 |-> 0, dec1 |-> 0], b, [i \in 1 .. d[1] * d[2] |-> i])
       EXCEPT !.dim = d]
    : d \in { <<1, 1>>, <<2, 2>>, <<1, 4>> }, b \in { BYTE_IMG, SHORT_IMG } }

InitBuf ==
  /\ Blank
  /\ build = [eboss |-> FALSE]

\* assign_mask: mask_init, before the loop over the bricks
buf_mask_init ==
  /\ pc = "start"
  /\ mk' = mask_init
  /\ pc' = "desi"
  /\ UNCHANGED <<brick, build, conf, files, cat, data, imin, opened, out, err>>
  /\ UNCHANGED <<fvars, lvars, wvars, xvars>>

\* main() of the first program: maskbit is zeroed before the loops
buf_legacy_init ==
  /\ pc = "start"
  /\ mk' = [dtype |-> 0, d1 |-> 0, d2 |-> 0, bytes |-> 0]
  /\ pc' = "legacy"
  /\ UNCHANGED <<brick, build, conf, files, cat, data, imin, opened, out, err>>
  /\ UNCHANGED <<fvars, lvars, wvars, xvars>>

\* assign_mask_from_file: read_mask for the next file
buf_read_mask ==
  /\ pc = "desi"
  /\ Len(files) < MaxReads
  /\ \E f \in BufFiles :
       /\ files' = Append(files, f)
       /\ \E o \in read_mask(f, mk, 0) :
            /\ res' = [st |-> o.st, bytes |-> o.m.bytes, nread |-> o.nread]
            /\ IF o.st = "ok" THEN mk' = o.m /\ UNCHANGED <<pc, err>>
               ELSE IF o.st = "crash"
               THEN pc' = "crash" /\ UNCHANGED <<mk, err>>
               ELSE Exit(BRICKMASK_ERR_MASK) /\ UNCHANGED mk
  /\ UNCHANGED <<brick, q, build, conf, cat, data, imin, opened, out>>
  /\ UNCHANGED <<lvars, wvars, xvars>>

\* main() of the first program: read_brick_mask for the next file, then the
\* bounds check and the index of the pixel (j, k) of that file
buf_read_brick_mask ==
  /\ pc = "legacy"
  /\ Len(files) < MaxReads
  /\ \E f \in BufFiles :
       /\ files' = Append(files, f)
       /\ \E o \in read_brick_mask(f, mk),
             j \in 0 .. f.dim[1] - 1, k \in 0 .. f.dim[2] - 1 :
            /\ res' = [st |-> o.st, bytes |-> o.m.bytes, nread |-> o.nread,
                       j |-> j, k |-> k,
                       inside |-> ~(j < 0 \/ j >= o.m.d1
                                    \/ k < 0 \/ k >= o.m.d2),
                       index |-> j + k * o.m.d1]
            /\ IF o.st = "crash"
               THEN pc' = "crash" /\ UNCHANGED <<mk, err>>
               ELSE IF o.st = "err"
               THEN Exit(ERR_FILE) /\ UNCHANGED mk
               ELSE IF ~res'.inside
               THEN Exit(KEY_OUT_BOUNDS) /\ UNCHANGED mk
               ELSE mk' = o.m /\ UNCHANGED <<pc, err>>
  /\ UNCHANGED <<brick, q, build, conf, cat, data, imin, opened, out>>
  /\ UNCHANGED <<lvars, wvars, xvars>>

NextBuf ==
  \/ buf_mask_init
  \/ buf_legacy_init
  \/ buf_read_mask
  \/ buf_read_brick_mask

SpecBuf == InitBuf /\ [][NextBuf]_vars

(***************************************************************************)
(* SpecGather: the collective operations of mpi_gather_data, rank by rank, *)
(* after mpi_scatter_data has divided the objects.  A rank that calls a     *)
(* collective waits in it until every rank of the communicator has called  *)
(* the same collective.                                                    *)
(***************************************************************************)
\* the objects of rank r (0-based) after the scatter
rank_n(r) == scatter.nsend[r + 1]

\* skip, as the root computes and broadcasts it: no worker has an object
gather_skip == \A w \in 1 .. size - 1 : rank_n(w) = 0

\* data->subid of rank r in the program of the subsample lists: the root
\* holds the column read_data has allocated, a worker allocates it only for
\* d->n > 0
rank_subid(r) == conf.subid /\ (r = 0 \/ rank_n(r) > 0)

\* the collectives rank r calls in mpi_gather_data, in program order
mpi_gather_ops(r) ==
  << "Gather n", "Bcast skip" >>
  \o (IF gather_skip THEN << >>
      ELSE IF conf.prog = "desi"
      THEN << "Gatherv ra", "Gatherv dec", "Gatherv mask", "Gatherv nexp0",
              "Gatherv nexp1", "Gatherv nexp2", "Reduce mtype",
              "Reduce etype0", "Reduce etype1", "Reduce etype2", "Barrier" >>
      ELSE << "Igatherv ra", "Igatherv dec", "Igatherv mask" >>
           \o (IF rank_subid(r) THEN << "Igatherv subid" >> ELSE << >>)
           \o << "Reduce mtype", "Barrier" >>)

InitGather ==
  /\ Blank
  /\ build = [eboss |-> FALSE]

\* the "desi" program up to mpi_gather_data: the objects are divided among
\* sz tasks and every task has run assign_mask
gather_begin_desi ==
  /\ pc = "sorted"
  /\ \E sz \in 1 .. MaxTask :
       /\ mpi_scatter_data(data.id, data.nbrick, sz).st = "ok"
       /\ size' = sz
       /\ scatter' = mpi_scatter_data(data.id, data.nbrick, sz)
       /\ task' = [r \in 0 .. sz - 1 |-> [at |-> 1, wait |-> FALSE]]
  /\ conf' = [prog |-> "desi", subid |-> FALSE]
  /\ pc' = "gather"
  /\ UNCHANGED <<brick, build, files, cat, data, mk, imin, opened, out, err>>
  /\ UNCHANGED <<xvars, fvars, lvars, thr, taken, wrote>>

\* the program of the subsample lists up to mpi_gather_data, with or without
\* the column of subsample ids
gather_begin_list ==
  /\ pc = "sorted"
  /\ \E sz \in 1 .. MaxTask, s \in BOOLEAN :
       /\ mpi_scatter_list(data.id, data.nbrick, sz).st = "ok"
       /\ size' = sz
       /\ scatter' = mpi_scatter_list(data.id, data.nbrick, sz)
       /\ task' = [r \in 0 .. sz - 1 |-> [at |-> 1, wait |-> FALSE]]
       /\ conf' = [prog |-> "list", subid |-> s]
  /\ pc' = "gather"
  /\ UNCHANGED <<brick, build, files, cat, data, mk, imin, opened, out, err>>
  /\ UNCHANGED <<xvars, fvars, lvars, thr, taken, wrote>>

\* rank r calls its next collective
gather_call ==
  /\ pc = "gather"
  /\ \E r \in 0 .. size - 1 :
       /\ ~task[r].wait
       /\ task[r].at <= Len(mpi_gather_ops(r))
       /\ task' = [task EXCEPT ![r].wait = TRUE]
  /\ UNCHANGED <<pc, brick, build, conf, files, cat, data, mk, imin, opened,
                 out, err>>
  /\ UNCHANGED <<xvars, fvars, lvars, size, scatter, thr, taken, wrote>>

\* every rank has called the same collective: it completes on all of them
gather_complete ==
  /\ pc = "gather"
  /\ \A r \in 0 .. size - 1 :
       /\ task[r].wait
       /\ mpi_gather_ops(r)[task[r].at] = mpi_gather_ops(0)[task[0].at]
  /\ task' = [r \in 0 .. size - 1 |-> [at |-> task[r].at + 1, wait |-> FALSE]]
  /\ UNCHANGED <<pc, brick, build, conf, files, cat, data, mk, imin, opened,
                 out, err>>
  /\ UNCHANGED <<xvars, fvars, lvars, size, scatter, thr, taken, wrote>>

\* every rank has returned from mpi_gather_data
gather_return ==
  /\ pc = "gather"
  /\ \A r \in 0 .. size - 1 :
       ~task[r].wait /\ task[r].at > Len(mpi_gather_ops(r))
  /\ pc' = "gathered"
  /\ UNCHANGED <<brick, build, conf, files, cat, data, mk, imin, opened, out,
                 err>>
  /\ UNCHANGED <<xvars, fvars, lvars, wvars>>

NextGather ==
  \/ split_sorted
  \/ gather_begin_desi
  \/ gather_begin_list
  \/ gather_call
  \/ gather_complete
  \/ gather_return

SpecGather == InitGather /\ [][NextGather]_vars

(***************************************************************************)
(* SpecParse: read_conf of the first program reads the configuration file  *)
(* line by line; parse_conf splits a line `KEYWORD = VALUE # COMMENTS`     *)
(* into the arrays keyword and value, which read_conf declares once and    *)
(* hands to every call.                                                    *)
(***************************************************************************)
MaxLine  == 4          \* characters of a line
MaxLines == 2          \* lines of a configuration file
NKey     == 3          \* LEN_CONF_KEY: bytes of the array keyword
NVal     == 3          \* LEN_CONF_VALUE: bytes of the array value

\* the null byte, and a byte of an array nothing has been stored in
NUL == "NUL"
Junk == "?"

\* the characters of a line: a letter, a blank, and the punctuation
\* parse_conf tells apart
LineChars == { "A", " ", "=", "'", "#" }
ConfLines == UNION { [1 .. n -> LineChars] : n \in 1 .. MaxLine }

isalpha(c) == c = "A"
isalnum(c) == c = "A"
isspace(c) == c = " "
isprint(c) == c \in LineChars

\* what parse_conf leaves behind when it returns st
parse_ret(s, st) == [state |-> st, key |-> s.key, value |-> s.value]

\* the loop of parse_conf over line[i - 1]; s holds state, ik, iv, quote
\* and the two arrays
RECURSIVE parse_conf_loop(_, _, _)
parse_conf_loop(line, i, s) ==
  LET c == IF i > Len(line) THEN NUL ELSE line[i]
      next(t) == parse_conf_loop(line, i + 1, t)
  IN
  IF c = NUL \/ c = "\n"
  THEN [state |-> IF s.state = "value" THEN "done" ELSE s.state,
        key |-> [s.key EXCEPT ![s.ik + 1] = NUL],
        value |-> [s.value EXCEPT ![s.iv + 1] = NUL]]
  ELSE CASE s.state = "start" ->
         IF isalpha(c) \/ c = "_"
         THEN next([s EXCEPT !.key[s.ik + 1] = c, !.ik = @ + 1,
                             !.state = "keyword"])
         ELSE IF ~isspace(c) THEN parse_ret(s, s.state)
         ELSE next(s)
    [] s.state = "keyword" ->
         IF isspace(c)
         THEN next([s EXCEPT !.key[s.ik + 1] = NUL, !.state = "equal"])
         ELSE IF c = "="
         THEN next([s EXCEPT !.state = "value_start"])
         ELSE IF isalnum(c) \/ c = "_"
         THEN IF s.ik >= NKey - 1
              THEN parse_ret([s EXCEPT !.key[s.ik + 1] = NUL], "abort")
              ELSE next([s EXCEPT !.key[s.ik + 1] = c, !.ik = @ + 1])
         ELSE parse_ret(s, s.state)
    [] s.state = "equal" ->
         IF isspace(c) THEN next(s)
         ELSE IF c = "=" THEN next([s EXCEPT !.state = "value_start"])
         ELSE parse_ret(s, s.state)
    [] s.state = "value_start" ->
         IF isspace(c) THEN next(s)
         ELSE IF c \in { "\"", "'" }
         THEN next([s EXCEPT !.quote = c, !.state = "value_quote"])
         ELSE IF c = "#" THEN parse_ret(s, s.state)
         ELSE IF isprint(c)
         THEN next([s EXCEPT !.value[s.iv + 1] = c, !.iv = @ + 1,
                             !.state = "value"])
         ELSE parse_ret(s, s.state)
    [] s.state = "value_quote" ->
         IF c = s.quote
         THEN parse_ret([s EXCEPT !.value[s.iv + 1] = NUL], "done")
         ELSE IF s.iv >= NVal - 1
         THEN parse_ret([s EXCEPT !.value[s.iv + 1] = NUL], "abort")
         ELSE next([s EXCEPT !.value[s.iv + 1] = c, !.iv = @ + 1])
    [] s.state = "value" ->
         IF isprint(c) /\ c # "#"
         THEN IF s.iv >= NVal - 1
              THEN parse_ret([s EXCEPT !.value[s.iv + 1] = NUL], "abort")
              ELSE next([s EXCEPT !.value[s.iv + 1] = c, !.iv = @ + 1])
         ELSE parse_ret([s EXCEPT !.value[s.iv + 1] = NUL], "done")

\* parse_conf: the state it returns and the arrays key and value after it
parse_conf(line, key, value) ==
  parse_conf_loop(line, 1,
    [state |-> "start", ik |-> 0, iv |-> 0, quote |-> NUL,
     key |-> key, value |-> value])

InitParse ==
  /\ Blank
  /\ build = [eboss |-> FALSE]

\* read_conf opens the file; its arrays keyword and value are not
\* initialised: they hold null bytes or anything else
read_conf_open ==
  /\ pc = "start"
  /\ \E c \in { NUL, Junk } :
       res' = [state |-> "start", nline |-> 0,
               key |-> [k \in 1 .. NKey |-> c],
               value |-> [k \in 1 .. NVal |-> c]]
  /\ pc' = "conf"
  /\ UNCHANGED <<brick, build, conf, files, cat, data, mk, imin, opened, out,
                 err>>
  /\ UNCHANGED q
  /\ UNCHANGED <<lvars, wvars, xvars>>

\* one turn of its loop: fgets reads a line and parse_conf splits it
read_conf_line ==
  /\ pc = "conf"
  /\ res.nline < MaxLines
  /\ \E line \in ConfLines :
       /\ q' = [line |-> line]
       /\ LET o == parse_conf(line, res.key, res.value)
          IN res' = [state |-> o.state, nline |-> res.nline + 1,
                     key |-> o.key, value |-> o.value]
  /\ UNCHANGED <<pc, brick, build, conf, files, cat, data, mk, imin, opened,
                 out, err>>
  /\ UNCHANGED <<lvars, wvars, xvars>>

\* fgets returns NULL: the file is closed
read_conf_end ==
  /\ pc = "conf"
  /\ pc' = "read"
  /\ UNCHANGED <<brick, build, conf, files, cat, data, mk, imin, opened, out,
                 err>>
  /\ UNCHANGED <<fvars, lvars, wvars, xvars>>

NextParse == read_conf_open \/ read_conf_line \/ read_conf_end

SpecParse == InitParse /\ [][NextParse]_vars

(***************************************************************************)
(* Properties of the lookup                                                *)
(***************************************************************************)
\* the rows whose half-open rectangle holds the coordinate
Covering(t, ra, dec) == { i \in 1 .. Len(t) : Inside(t[i], ra, dec) }

\* a gap-free, non-overlapping tiling of the whole sky
Tiling(t) ==
  /\ NoOverlap(t)
  /\ \A ra \in SkyRa, dec \in SkyDec : Covering(t, ra, dec) # {}

\* the tiling is made of declination bands: two rows whose declination
\* ranges meet have the same declination range
Banded(t) ==
  \A i \in 1 .. Len(t) : \A j \in 1 .. Len(t) :
    (t[i].dec1 < t[j].dec2 /\ t[j].dec1 < t[i].dec2)
      => (t[i].dec1 = t[j].dec1 /\ t[i].dec2 = t[j].dec2)

\* C2 (as stated): on every gap-free, non-overlapping tiling of the sky in
\* ascending (dec_min, ra_min) order the lookup returns the one brick whose
\* rectangle holds the coordinate.
C2_LookupTotalAnyTiling ==
  (pc = "found" /\ Tiling(brick))
    => \E i \in Covering(brick, q.ra, q.dec) : res = Ret(i - 1)

\* C2 (amended): on every gap-free, non-overlapping tiling of the sky that
\* is made of declination bands and stored in ascending (dec_min, ra_min)
\* order, the lookup returns the one brick whose rectangle holds the
\* coordinate, boundary values included.
C2_LookupTotalBands ==
  (pc = "found" /\ Tiling(brick) /\ Banded(brick))
    => /\ Cardinality(Covering(brick, q.ra, q.dec)) = 1
       /\ \E i \in Covering(brick, q.ra, q.dec) : res = Ret(i - 1)

\* a lookup of ra = 0 with dec on the edge between two bands of a tiling
C2_Witness ==
  /\ pc = "found" /\ ~q.long
  /\ Tiling(brick) /\ Banded(brick) /\ Len(brick) = MaxBrick
  /\ q.ra = 0 /\ q.dec = brick[Len(brick)].dec1 /\ q.dec > brick[1].dec1
  /\ res = Ret(Len(brick) - 2)

\* C3: the lookup returns NOT_FOUND for every coordinate that no rectangle
\* of the brick list covers, below the first brick, above the last one or
\* in a gap.
C3_NotFoundWhenUncovered ==
  (pc = "found" /\ Covering(brick, q.ra, q.dec) = {})
    => res = Ret(NOT_FOUND)

(***************************************************************************)
(* Properties of a run                                                     *)
(***************************************************************************)
\* the brick of the list that holds object p of the input catalogue
Owner(p) ==
  CHOOSE b \in 1 .. Len(brick) : Inside(brick[b], cat[p][1], cat[p][2])

\* the maskbits file of that brick
MaskFile(p) == FileOf(brick[Owner(p)], files[Owner(p)].mask)

\* the brick lies outside the photometric regions
Skipped(p) == brick[Owner(p)].photsys \notin { "N", "S" }

\* the value of the pixel nearest to the position of object p
PixelBit(p) ==
  LET f == MaskFile(p)
      w == world2pix(f, cat[p][1], cat[p][2])
  IN f.pix[RoundDiv(w.xn, w.d) + RoundDiv(w.yn, w.d) * f.dim[1] + 1]

\* the bit code object p is due in the default build
Code(p) ==
  IF Skipped(p) \/ ~MaskFile(p).exists THEN conf.mnull ELSE PixelBit(p)

IsPerm(idx) ==
  \A v \in 0 .. Len(idx) - 1 : \E i \in 1 .. Len(idx) : idx[i] = v

C4_StartsAtNull ==
  pc \in { "data", "sorted" } => \A i \in 1 .. data.n : data.mask[i] = conf.mnull

\* the pixel values of a file
PixelValues(f) == { f.pix[j] : j \in 1 .. Len(f.pix) }

\* the brick of the object at place i of the sorted arrays
SortedOwner(i) == data.id[i] + 1

\* C4 (amended): the bit code of every object starts at 0, not at the null
\* code; a pass of assign_mask leaves it alone, adds a pixel value of the
\* maskbits file of the object's brick to it, or - when that file is missing
\* or the brick is outside the photometric regions - overwrites it with the
\* configured null code.
C4_StartsAtZeroThenAdded ==
  /\ [](pc \in { "data", "sorted" } => \A i \in 1 .. data.n : data.mask[i] = 0)
  /\ [][ (pc = "assign" /\ pc' = "assign")
           => \A i \in 1 .. data.n :
                LET f == FileOf(brick[SortedOwner(i)],
                                files[SortedOwner(i)].mask)
                    skip == brick[SortedOwner(i)].photsys \notin { "N", "S" }
                IN \/ data'.mask[i] = data.mask[i]
                   \/ /\ f.exists /\ ~skip
                      /\ \E v \in PixelValues(f) :
                           data'.mask[i] = data.mask[i] + v
                   \/ /\ ~f.exists \/ skip
                      /\ data'.mask[i] = conf.mnull ]_vars

\* during assign_mask one object holds the null code of a missing file and
\* another one a pixel value
C4_Witness ==
  /\ pc = "assign" /\ imin = data.n /\ data.n > 1
  /\ \E i \in 1 .. data.n :
       /\ ~FileOf(brick[SortedOwner(i)], files[SortedOwner(i)].mask).exists
       /\ data.mask[i] = conf.mnull
  /\ \E i \in 1 .. data.n :
       /\ FileOf(brick[SortedOwner(i)], files[SortedOwner(i)].mask).exists
       /\ data.mask[i] > 0 /\ data.mask[i] # conf.mnull

\* the scenario of C6 on the sky grid (one unit is 5 degrees): bricks
\* A = [0,2) x [0,2) and B = [2,4) x [0,2), the objects (1,1) and (3,1), a
\* maskbits file for A with value 2 at the pixel of (1,1), none for B, and
\* the null code 1
Scenario6 ==
  /\ Len(brick) = 2
  /\ brick[1] = BrickA("N") /\ brick[2] = BrickB("S")
  /\ cat = << <<1, 1>>, <<3, 1>> >>
  /\ files[1].mask = "M8" /\ files[2].mask = "none"
  /\ conf.mnull = 1

\* C6: in the scenario the run does not fail, and when it is done object 1
\* has the bit code 2, object 2 the null code 1, in the order of the input.
C6_Scenario ==
  (pc \in { "data", "sorted", "assign", "assigned", "reordered", "done",
            "exit", "crash" } /\ Scenario6)
    => /\ pc \notin { "exit", "crash" }
       /\ pc = "done"
            => /\ err = 0
               /\ Len(out) = 2
               /\ out[1].row = <<1, 1>> /\ out[1].mask = 2
               /\ out[2].row = <<3, 1>> /\ out[2].mask = 1

C6_Witness == pc = "done" /\ Scenario6 /\ out[1].mask = 2 /\ out[2].mask = 1

OpenedMaskTypes == { o[2] : o \in { x \in opened : x[1] = 0 } }

\* C8: after all groups the data type of the mask column is the largest
\* pixel type of the maskbits files read during the run (and at least the
\* type data_init chose for the null code).
C8_WidthIsMaxOpened ==
  pc \in { "assigned", "reordered", "done" }
    => data.mtype = SetMax(OpenedMaskTypes \cup { null_dtype(conf.mnull) })

\* the smallest data type that holds the value v
MinType(v) ==
  IF v <= UINT8_MAX THEN TBYTE ELSE IF v <= UINT16_MAX THEN TSHORT ELSE TINT

\* C9: the data type of the emitted mask column is the smallest one that
\* holds the largest final bit code of the catalogue.
C9_WidthIsMinimal ==
  pc = "assigned"
    => data.mtype = MinType(SetMax({ data.mask[i] : i \in 1 .. data.n }))

\* C10: the restore moves every bit code to the original place of its
\* object and alters no value.
C10_PureMovement ==
  [][ (pc = "assigned" /\ pc' = "reordered")
        => \A i \in 1 .. data.n : data'.mask[data.idx[i] + 1] = data.mask[i]
    ]_vars

(***************************************************************************)
(* Properties of a run of the first program                                *)
(***************************************************************************)
\* the subsample file s (1 .. NUMSUB) of the brick of the sorted object i
SubFile(i, s) == SubFileOf(brick[data.id[i] + 1], files[data.id[i] + 1][s])

\* the value of that file at the rounded pixel of the object, and the byte
\* at its truncated pixel
RoundBit(i, s) ==
  LET f == SubFile(i, s)
      p == world2pix(f, data.ra[i], data.dec[i])
  IN f.pix[RoundDiv(p.xn, p.d) + RoundDiv(p.yn, p.d) * f.dim[1] + 1]

TruncByte(i, s) ==
  LET f == SubFile(i, s)
      p == world2pix(f, data.ra[i], data.dec[i])
  IN byte_at(f.pix, TruncDiv(p.xn, p.d) + TruncDiv(p.yn, p.d) * f.dim[1],
             f.bitpix \div 8)

\* the subsample files that cover the object with a valid value
ValidSubs(i) ==
  { s \in 1 .. NUMSUB : SubFile(i, s).exists /\ MASK_VALID(RoundBit(i, s)) }

\* the value b with bit 2 replaced by bit 2 of t
WithBit2Of(b, t) ==
  b - (IF XYBUG_VALID(b) THEN XYBUG ELSE 0)
    + (IF XYBUG_VALID(t) THEN XYBUG ELSE 0)

RECURSIVE SumBits(_, _)
SumBits(i, S) ==
  IF S = {} THEN 0
  ELSE LET s == CHOOSE x \in S : TRUE
       IN RoundBit(i, s) + SumBits(i, S \ {s})

RECURSIVE SumCorrected(_, _)
SumCorrected(i, S) ==
  IF S = {} THEN 0
  ELSE LET s == CHOOSE x \in S : TRUE
       IN WithBit2Of(RoundBit(i, s), TruncByte(i, s))
            + SumCorrected(i, S \ {s})

SortedPlace(p) == CHOOSE j \in 1 .. data.n : data.row[j] = p

\* C11: row i of the output carries the payload and the code of the i-th
\* object of the input, for the text format as well as for the binary table.
C11_OutputInInputOrder ==
  pc = "done"
    => /\ Len(out) = Len(cat)
       /\ \A p \in 1 .. Len(cat) :
            /\ out[p].row = p
            /\ out[p].mask = data.mask[SortedPlace(p)]
            /\ out[p].flag = data.flag[SortedPlace(p)]

(***************************************************************************)
(* Properties of the failures of a run                                     *)
(***************************************************************************)
\* C12: once the lookup has returned NOT_FOUND for an object the run is
\* over with the error of sort_data: no object has a bit code and nothing
\* is written.
C12_NotFoundAborts ==
  (data.n > 0 /\ \E i \in 1 .. data.n : data.id[i] < 0)
    => /\ pc = "exit" /\ err = BRICKMASK_ERR_BRICK
       /\ out = << >>
       /\ \A i \in 1 .. data.n : data.mask[i] = 0

\* a run that has found the brick of its first object and not the brick of
\* its second one
C12_Witness ==
  /\ pc = "exit" /\ data.n > 1
  /\ data.id[1] >= 0
  /\ Inside(brick[data.id[1] + 1], data.ra[1], data.dec[1])
  /\ data.id[2] = NOT_FOUND

(***************************************************************************)
(* Properties of the objects on the edge of the sky                        *)
(***************************************************************************)
\* the coordinate the half-open policy gives to an object: ra = 360 is
\* ra = 0, dec = 90 lies in the last cell below 90
EdgeRa(ra) == IF ra = RA_FULL THEN 0 ELSE ra
EdgeDec(dec) == IF dec = DEC_TOP THEN DEC_TOP - 1 ELSE dec

\* C13: on a tiling of the sky an object with ra = 360 is looked up as
\* ra = 0 and an object with dec = 90 just below 90, so that every object
\* on an edge gets the brick that holds this coordinate instead of being
\* rejected.
C13_EdgeObjectsResolved ==
  (pc = "placed" /\ Tiling(brick) /\ Banded(brick))
    => \E i \in Covering(brick, EdgeRa(q.ra), EdgeDec(q.dec)) :
         res = Ret(i - 1)

(***************************************************************************)
(* Properties of one image applied to one object                           *)
(***************************************************************************)
\* the value of the image at the rounded and at the truncated pixel of the
\* object
RoundedPixel ==
  LET p == world2pix(files[1], cat[1][1], cat[1][2])
  IN files[1].pix[RoundDiv(p.xn, p.d) + RoundDiv(p.yn, p.d) * files[1].dim[1]
                  + 1]

TruncatedPixel ==
  LET p == world2pix(files[1], cat[1][1], cat[1][2])
  IN files[1].pix[TruncDiv(p.xn, p.d) + TruncDiv(p.yn, p.d) * files[1].dim[1]
                  + 1]

\* what the image has added to the code of the object
Contribution == data.mask[1] - SetMax({ c \in StartCodes : c <= data.mask[1] })

\* C14: with the correction enabled, a rounded pixel with the xybug flag
\* (value 4) and a truncated pixel of value 0 contribute nothing for bit 2:
\* the object gets the rounded value without its 4, or nothing when that
\* value is not valid.  With the correction disabled the object gets the
\* rounded value as it is.
C14_XybugScenario ==
  pc = "coded"
    => /\ (build.eboss /\ XYBUG_VALID(RoundedPixel) /\ TruncatedPixel = 0)
            => /\ Contribution = IF MASK_VALID(RoundedPixel)
                                 THEN RoundedPixel - XYBUG ELSE 0
               /\ (Contribution \div XYBUG) % 2 = 0
       /\ ~build.eboss => Contribution = RoundedPixel

\* the rounded pixel holds 5, the truncated one 0, the correction is enabled
\* and the object has got 1
C14_Witness ==
  /\ pc = "coded" /\ build.eboss
  /\ RoundedPixel = 5 /\ TruncatedPixel = 0
  /\ data.mask[1] = 8 + 1

\* the object has been tagged by the mask source
Tagged == data.subid[1] # 0 \/ data.flag[1] # 0

Segment(w) ==
  { i \in 0 .. data.n - 1 :
      scatter.disp[w + 1] <= i /\ i < scatter.disp[w + 1] + scatter.nsend[w + 1] }

\* C16: for every number of tasks and every array of sorted brick ids the
\* segments of the tasks are contiguous, follow one another in the order of
\* the ranks and hold every object once, and every segment starts where the
\* brick id changes: the objects of one brick all go to one task.
C16_BrickAlignedSegments ==
  pc = "split"
    => /\ scatter.st = "ok"
       /\ \A w \in 0 .. size - 1 : scatter.nsend[w + 1] >= 0
       /\ \A i \in 0 .. data.n - 1 :
            Cardinality({ w \in 0 .. size - 1 : i \in Segment(w) }) = 1
       /\ \A w, v \in 0 .. size - 1 :
            \A i \in Segment(w), j \in Segment(v) :
              /\ w < v => i < j
              /\ data.id[i + 1] = data.id[j + 1] => w = v

\* three tasks, five objects in three bricks of two, one and two objects,
\* and every task has got the objects of one brick
C16_Witness ==
  /\ pc = "split" /\ size = 3 /\ data.n = 5
  /\ data.id = << 0, 0, 1, 2, 2 >>
  /\ scatter.nsend = << 2, 1, 2 >>

(***************************************************************************)
(* Properties of the gather                                                *)
(***************************************************************************)
\* the codes have been gathered from more than one task
Gathered == pc = "assigned" /\ size > 1

\* C17: when mpi_gather_data is over, the root holds the whole sorted
\* catalogue again: place i has the coordinates and the original index it
\* had before the split, and its bit code is the one due to the object with
\* that original index, whichever task computed it.
C17_GatherInvertsSplit ==
  Gathered
    => /\ data.n = Len(cat)
       /\ IsPerm(data.idx)
       /\ \A i \in 1 .. data.n :
            /\ <<data.ra[i], data.dec[i]>> = cat[data.idx[i] + 1]
            /\ data.id[i] + 1 = Owner(data.idx[i] + 1)
            /\ data.mask[i] = Code(data.idx[i] + 1)

\* three tasks have each computed the code of one object, the codes differ
\* from one another and the sort had rearranged the objects
C17_Witness ==
  /\ Gathered /\ size = 3 /\ data.n = 3
  /\ scatter.nsend = << 1, 1, 1 >>
  /\ data.mask[1] # data.mask[2] /\ data.mask[2] # data.mask[3]
  /\ data.mask[1] # data.mask[3]
  /\ data.idx # << 0, 1, 2 >>

(***************************************************************************)
(* Properties of the parallel region                                       *)
(***************************************************************************)
\* the group (0-based) of the object at place k of the sorted array
GroupOf(k) ==
  CHOOSE m \in 0 .. count_brick(data.id) - 1 :
    ubi(data.id, m) < k /\ k <= ubi(data.id, m + 1)

\* the threads that have been handed the iteration m and are at it
AtGroup(m) == { t \in 1 .. size : thr[t].st # "idle" /\ thr[t].m = m }

\* C18: in every interleaving of the threads every object lies in one group,
\* no two threads are at the same group, and the bit code and the subsample
\* flag of an object are written by one thread only.
C18_OneWriterPerObject ==
  pc = "parallel"
    => /\ \A k \in 1 .. data.n :
            /\ Cardinality({ m \in 0 .. count_brick(data.id) - 1 :
                 ubi(data.id, m) < k /\ k <= ubi(data.id, m + 1) }) = 1
            /\ Cardinality(wrote[k]) <= 1
            /\ \A j \in 1 .. data.n :
                 GroupOf(j) = GroupOf(k) /\ wrote[j] # {} /\ wrote[k] # {}
                   => wrote[j] = wrote[k]
       /\ \A m \in 0 .. count_brick(data.id) - 1 : Cardinality(AtGroup(m)) <= 1

\* two threads are at work at the same time, each on its own group, and
\* each has written the codes of an object
C18_Witness ==
  /\ pc = "parallel" /\ size = 2 /\ data.n = MaxObj
  /\ thr[1].st = "run" /\ thr[2].st = "run" /\ thr[1].m # thr[2].m
  /\ wrote[1] # {} /\ wrote[data.n] # {} /\ wrote[1] # wrote[data.n]
  /\ data.mask[1] # 0 /\ data.mask[data.n] # 0


\* the data types of the files the threads have read: those of the files
\* that exist for the bricks that hold objects
WidthsRead ==
  { IF SubFileOf(brick[x[1]], files[x[1]][x[2]]).bitpix = BYTE_IMG THEN TBYTE
    ELSE TSHORT :
      x \in { y \in { data.id[i] + 1 : i \in 1 .. data.n } \X (1 .. NUMSUB) :
                SubFileOf(brick[y[1]], files[y[1]][y[2]]).exists } }

\* C19: when the parallel region is over, the shared dtype is the largest
\* data type any thread has met in a file, whatever the order in which the
\* threads compared and stored it.
C19_WidthIsMaxOverWorkers ==
  pc = "mask" /\ size > 0
    => \A w \in WidthsRead \cup { 0 } : w <= masktype

(***************************************************************************)
(* Properties of the output of a run that fails                            *)
(***************************************************************************)
\* the full output: a line for every object, in its file
FullOutput ==
  [p \in 1 .. data.n |->
     [file |-> IF p <= data.iidx[2] THEN 0 ELSE 1, row |-> p,
      mask |-> data.mask[p]]]

\* C20: when a run is over, with or without an error, either every line of
\* the output has been written or none has.
C20_AllOrNothing ==
  pc \in { "done", "exit" } => out = << >> \/ out = FullOutput

(***************************************************************************)
(* Properties of the exit status                                           *)
(***************************************************************************)
\* the code of define.h for a category of failure
CategoryCode(c) ==
  CASE c = "memory" -> BRICKMASK_ERR_MEMORY
    [] c = "file"   -> BRICKMASK_ERR_FILE

\* C21: the exit status is 0 on success and non-zero on a fatal error, and
\* a failure of a category exits with the code of that category (so that
\* failures of two categories never exit with the same code)
C21_CodePerCategory ==
  /\ pc = "done" => err = 0
  /\ pc = "exit" => err # 0
  /\ pc = "exit" /\ cause # "none" => err = CategoryCode(cause)

(***************************************************************************)
(* Properties of the header of a mask file                                 *)
(***************************************************************************)
\* the header is not one of the plain tangent-plane scheme
Rejected(f) ==
  /\ f.exists
  /\ \/ f.ctype # << "RA---TAN", "DEC--TAN" >>
     \/ f.keys # {}

\* C22: a maskbits file whose header names another projection or holds a
\* keyword of a distortion, rotation or reversal is not accepted: no object
\* of its brick receives a bit from it and the run does not complete
C22_OnlyPlainTan ==
  /\ pc \in { "assign", "assigned" }
       => \A i \in 1 .. data.n :
            LET b == SortedOwner(i) IN
            (b \in 1 .. Len(brick)
               /\ brick[b].photsys \in { "N", "S" }
               /\ Rejected(FileOf(brick[b], files[b].mask)))
              => data.mask[i] = 0
  /\ pc = "done"
       => \A p \in 1 .. Len(cat) : ~Skipped(p) => ~Rejected(MaskFile(p))

\* the first program: read_wcs_header ends the run before read_brick_mask
\* and before any object of the group receives a bit from the file
C22_LegacyOnlyPlainTan ==
  pc \in { "mask", "done" }
    => \A g \in 0 .. count_brick(data.id) - 1 :
         LET b == data.id[ubi(data.id, g) + 1] + 1 IN
         \A k \in 1 .. NUMSUB :
           (g < grp \/ (g = grp /\ k - 1 < sub))
             => ~Rejected(SubFileOf(brick[b], files[b][k]))

C22_LegacyWitness ==
  /\ pc = "exit"
  /\ err = WCS_ERROR
  /\ sub = 1

(***************************************************************************)
(* Properties of the deprojection                                          *)
(***************************************************************************)
\* the sine of the native latitude of the object, times TanScale
Theta == q.l[3] * q.crval[3] + q.l[1] * q.crval[2] * q.crval[4]
           + q.l[2] * q.crval[1] * q.crval[4]

\* C23 as stated: the conversion has no failure mode in either program
C23_NoFailureMode ==
  pc \in { "desi", "legacy", "exit" } => res.err = 0 /\ pc # "exit"

\* C23 (amended): world2pix of the "desi" program signals nothing: it
\* returns the reference pixel at and beyond the pole and a pixel that is
\* not finite on the horizon of the tangent plane.  wcs_world2pix of the
\* first program returns WCS_ERROR on that horizon (theta == 0), where main()
\* exits, and the pixel of world2pix everywhere else.
C23_FailsOnlyOnHorizon ==
  /\ pc = "desi"
       => /\ res.err = 0
          /\ res.pix.fin <=> Theta # 0
          /\ (Theta >= TanScale \/ Theta <= 0 - TanScale)
               => res.pix = Frac(q.crpix[1] - 1, q.crpix[2] - 1, 1)
  /\ pc = "legacy"
       => /\ Theta # 0
          /\ res.err = 0
          /\ res.pix.fin
          /\ res.pix.d # 0
          /\ LET w == world2pix_tan(q.crval, q.crpix, q.l)
             IN /\ res.pix.xn * w.d = w.xn * res.pix.d
                /\ res.pix.yn * w.d = w.yn * res.pix.d
  /\ pc = "exit" => Theta = 0 /\ err = WCS_ERROR /\ res.err = WCS_ERROR

C23_Witness ==
  /\ pc = "exit"
  /\ err = WCS_ERROR
  /\ Theta = 0
  /\ q.l = <<0, 4, 3>>
  /\ q.crval = <<0, 1, 0, 1>>

(***************************************************************************)
(* Properties of the overwrite policy                                      *)
(***************************************************************************)
\* the first characters of the lines of the standard input
RECURSIVE FirstChars(_)
FirstChars(in) ==
  IF in = << >> THEN {} ELSE { Head(in) } \cup FirstChars(skip_line(Tail(in)))

\* C24: for an output file that exists, OVERWRITE = 0 ends the program with
\* an error; a positive value overwrites without a prompt; a negative value
\* prompts at most |OVERWRITE| times and fails unless one of the answers was
\* affirmative.
C24_OverwritePolicy ==
  pc \in { "verified", "exit" } /\ q.exists
    => /\ conf.ovwrite = 0 => pc = "exit" /\ res.asked = 0
       /\ conf.ovwrite > 0
            => res.asked = 0 /\ (pc = "verified" <=> q.writable)
       /\ conf.ovwrite < 0
            => /\ res.asked <= 0 - conf.ovwrite
               /\ pc = "verified" => res.asked >= 1 /\ "y" \in FirstChars(q.stdin)
               /\ "y" \notin FirstChars(q.stdin) => pc = "exit"
               /\ (q.stdin # << >> /\ Head(q.stdin) = "y" /\ q.writable)
                    => pc = "verified" /\ res.asked = 1

C24_Witness ==
  /\ pc = "exit"
  /\ q.exists /\ q.writable
  /\ conf.ovwrite = 0 - MaxAsk
  /\ res.asked = MaxAsk
  /\ q.stdin = << "x", "\n", "x" >>

(***************************************************************************)
(* Properties of the reused buffer                                         *)
(***************************************************************************)
\* the file the last read was for
LastFile == files[Len(files)]

\* C25: whenever a file is read into the reused buffer the buffer holds at
\* least width x height x bytes-per-pixel of that file, and the read asks
\* the file for no more pixels than its width x height
C25_BufferHoldsImage ==
  (pc \in { "desi", "legacy", "crash", "exit" } /\ files # << >>
     /\ res.nread > 0)
    => LET npix == LastFile.dim[1] * LastFile.dim[2]
           nbyte == LastFile.bitpix \div 8
       IN /\ res.bytes >= npix * nbyte
          /\ res.bytes >= res.nread * nbyte
          /\ res.nread <= npix

\* the same for the first program alone
C25_LegacyBufferHoldsImage ==
  (pc = "legacy" /\ files # << >>) => C25_BufferHoldsImage

\* the same for the "desi" program alone
C25_DesiBufferHoldsImage ==
  (pc = "desi" /\ files # << >>) => C25_BufferHoldsImage

(***************************************************************************)
(* Properties of the shape of the image in the buffer                      *)
(***************************************************************************)
\* C28: after a read of the first program that succeeds, the width and the
\* height main() checks the pixel against and the width it indexes the rows
\* with are those of the file just read: a pixel (j, k) of that file passes
\* the bounds check and its index is j + k * width.
C28_ShapeOfFileJustRead ==
  (pc \in { "legacy", "exit" } /\ files # << >> /\ res.st = "ok")
    => /\ res.inside
       /\ res.index = res.j + res.k * LastFile.dim[1]
       /\ pc = "legacy" => mk.d1 = LastFile.dim[1] /\ mk.d2 = LastFile.dim[2]

(***************************************************************************)
(* Properties of the collectives of the gather                             *)
(***************************************************************************)
\* rank r waits in a collective that rank s does not call at that place
Unmatched(r, s) ==
  /\ task[r].wait
  /\ \/ task[r].at > Len(mpi_gather_ops(s))
     \/ mpi_gather_ops(s)[task[r].at] # mpi_gather_ops(r)[task[r].at]

\* C26: in mpi_gather_data every rank calls the same collectives in the same
\* order, whatever the numbers of objects of the ranks and with or without
\* subsample ids, so that no rank waits in a collective another rank skips
C26_SameCollectives ==
  pc \in { "gather", "gathered" }
    => /\ \A r \in 0 .. size - 1 : mpi_gather_ops(r) = mpi_gather_ops(0)
       /\ \A r, s \in 0 .. size - 1 : ~Unmatched(r, s)
       /\ pc = "gathered"
            => \A r \in 0 .. size - 1 : task[r].at = Len(mpi_gather_ops(0)) + 1

\* the "desi" program: a rank without objects among ranks with objects
C26_Witness ==
  /\ pc = "gathered"
  /\ conf.prog = "desi"
  /\ size = 4
  /\ rank_n(1) > 0
  /\ rank_n(3) = 0
  /\ ~gather_skip

\* the program of the subsample lists, with subsample ids
C26_ListWitness ==
  /\ pc = "gathered"
  /\ conf.prog = "list"
  /\ conf.subid
  /\ size = 2
  /\ ~gather_skip
  /\ rank_subid(1)
  /\ Len(mpi_gather_ops(1)) = 8

(***************************************************************************)
(* Properties of the number of bricks of a task                            *)
(***************************************************************************)
\* the brick ids of the objects task w is sent
SegmentBricks(w) == { data.id[i + 1] : i \in Segment(w) }

\* C27: after mpi_scatter_data, for every number of tasks, more tasks than
\* bricks included, the d->nbrick of every task is the number of distinct
\* brick ids of the segment the task is sent, and the d->nbrick of all
\* the tasks sum to the number of bricks of the catalogue.
C27_BricksOfSegment ==
  pc = "split"
    => /\ \A w \in 0 .. size - 1 :
            scatter.nbrick[w] = Cardinality(SegmentBricks(w))
       /\ data.nbrick =
            Cardinality(UNION { SegmentBricks(w) : w \in 0 .. size - 1 })
       /\ \A w, v \in 0 .. size - 1 :
            w # v => SegmentBricks(w) \cap SegmentBricks(v) = {}

\* the "desi" program with four tasks and three bricks: the last task has
\* no brick
C27_Witness ==
  /\ pc = "split" /\ size = 4
  /\ data.id = << 0, 1, 1, 3 >>
  /\ scatter.nbrick = [r \in 0 .. 3 |-> IF r < 3 THEN 1 ELSE 0]
  /\ scatter.nsend = << 1, 2, 1, 0 >>

\* the program of the subsample lists with three tasks and four bricks: the
\* root has two bricks
C27_ListWitness ==
  /\ pc = "split" /\ size = 3
  /\ data.id = << 0, 1, 2, 2, 3 >>
  /\ scatter.nbrick = [r \in 0 .. 2 |-> IF r = 0 THEN 2 ELSE 1]
  /\ scatter.nsend = << 2, 2, 1 >>

(***************************************************************************)
(* Properties of a brick without photometric region                        *)
(***************************************************************************)
\* the group at imin belongs to a brick whose tag is neither "N" nor "S"
NoPhotsysGroup ==
  /\ pc = "assign"
  /\ imin < data.n
  /\ data.id[imin + 1] \in 0 .. Len(brick) - 1
  /\ brick[data.id[imin + 1] + 1].photsys \notin { "N", "S" }

\* C29: for a group of a brick whose tag is neither "N" nor "S" every
\* object of the group gets the null mask code and the null exposure code
\* and the group is skipped: no file is read for it and the pixel types the
\* MASK tracks are as they were when the loop moves on.
C29_GroupSkipped ==
  [][ NoPhotsysGroup /\ pc' = "assign"
        => /\ imin' = group_end(data.id, imin, imin + 1)
           /\ \A i \in imin + 1 .. imin' :
                /\ data'.mask[i] = conf.mnull
                /\ \A k \in 1 .. 3 : data'.nexp[k][i] = conf.enull
           /\ opened' = opened
           /\ mk.dtype' = mk.dtype
           /\ mk.etype' = mk.etype ]_vars

\* the codes alone: every object of such a group gets the null codes
C29_NullCodes ==
  [][ NoPhotsysGroup /\ pc' = "assign"
        => /\ imin' = group_end(data.id, imin, imin + 1)
           /\ \A i \in imin + 1 .. imin' :
                /\ data'.mask[i] = conf.mnull
                /\ \A k \in 1 .. 3 : data'.nexp[k][i] = conf.enull ]_vars

(***************************************************************************)
(* Properties of the keyword of a configuration line                       *)
(***************************************************************************)
\* the string a C array holds: the bytes before its first null byte, or the
\* whole array and beyond when it has none
Terminated(buf) == \E k \in 1 .. Len(buf) : buf[k] = NUL
CStr(buf) ==
  IF ~Terminated(buf) THEN buf
  ELSE SubSeq(buf, 1,
              (CHOOSE k \in 1 .. Len(buf) :
                 buf[k] = NUL /\ \A j \in 1 .. k - 1 : buf[j] # NUL) - 1)

\* the keyword of a line: the letters that follow its leading blanks
KeyFrom(line) ==
  CHOOSE i \in 1 .. Len(line) + 1 :
    /\ \A j \in 1 .. i - 1 : line[j] = " "
    /\ i <= Len(line) => line[i] # " "
KeyTo(line) ==
  CHOOSE k \in KeyFrom(line) - 1 .. Len(line) :
    /\ \A j \in KeyFrom(line) .. k : isalnum(line[j])
    /\ k < Len(line) => ~isalnum(line[k + 1])
Keyword(line) == SubSeq(line, KeyFrom(line), KeyTo(line))

\* parse_conf has just returned parse_conf_done
ParseDone == pc = "conf" /\ res.nline > 0 /\ res.state = "done"

\* C30: whenever parse_conf returns parse_conf_done, the array key holds
\* the keyword of the line just parsed and then a null byte, and nothing of
\* an earlier line, whatever follows the keyword.
C30_KeyOfCurrentLine ==
  ParseDone => Terminated(res.key) /\ CStr(res.key) = Keyword(q.line)

\* the same for the lines where a blank follows the keyword
C30_KeyAfterBlank ==
  /\ ParseDone
  /\ KeyTo(q.line) < Len(q.line)
  /\ q.line[KeyTo(q.line) + 1] = " "
  => Terminated(res.key) /\ CStr(res.key) = Keyword(q.line)


\* the second line of a file has the keyword A directly before '=' and a
\* comment after the value; the array still holds the keyword AA of the
\* first line
C30_LeftOver ==
  /\ ParseDone /\ res.nline = 2
  /\ q.line = << "A", "=", "A", "#" >>
  /\ res.key = << "A", "A", NUL >>

==========================================================================
